---------------------------- MODULE Spec2Model ----------------------------
(***************************************************************************)
(* A model of getm, a concurrent HTTP range downloader.                    *)
(*                                                                         *)
(*   SpecReader     getm.reader.URLReader: N range workers fetching the    *)
(*                  parts of the range plan into a shared circular buffer  *)
(*                  through a ConcurrentQueue.                             *)
(*   SpecKeepAlive  URLReaderKeepAlive: one producer, one consumer.        *)
(*   SpecKeepAliveFair  the same, the producer process being scheduled.    *)
(*   SpecUnordered  iter_content_unordered over a ConcurrentPool.          *)
(*   SpecDownload   cli._download of one url and the files it touches.     *)
(*   SpecPlanner    part_coords, the range plan.                           *)
(*   SpecCollection ConcurrentPool, ConcurrentQueue and ConcurrentHeap on  *)
(*                  an executor.                                           *)
(*   SpecOrchestrator  cli.download of a manifest, up to the exit status   *)
(*                  of the process.                                        *)
(*   SpecDispatch   getm.urlopen and getm.iter_content choosing a reader.  *)
(*   SpecLayouts    checksum._s3_multipart_layouts.                        *)
(*   SpecEtag       checksum.S3Etag fed a stream in pieces.                *)
(*   SpecRangeRead  http.Session.get_range_readinto and its retries.       *)
(*   SpecVerifier   checksum.GETMChecksum as cli.py builds and feeds it.   *)
(*   SpecBufferSize URLReaderKeepAlive.compute_buffer_size.                *)
(*   SpecCircular   SharedCircularBuffer, its slices and coordinates.      *)
(*   SpecKeepAliveIter  the keep-alive reader with fair processes.         *)
(*   SpecReaders    URLReader or URLReaderKeepAlive, read.                 *)
(*   SpecSinglePart S3MultiEtag(size, 1), update turn by turn.             *)
(*   SpecKeepAliveEarly  the keep-alive reader, its producer ending early. *)
(*   SpecStreamingIter  streaming_urls.reader.iter_content, the earlier    *)
(*                  ordered iterator.                                      *)
(*                                                                         *)
(* The object behind the url is the byte string whose byte at offset k has *)
(* the value k, so a byte that is skipped, repeated or overwritten shows   *)
(* in what the consumer observes.                                          *)
(***************************************************************************)
EXTENDS Integers, Sequences, FiniteSets, TLC

\* ------------------------------------------------------------------ bounds
\* URLReader: concurrency in 1..MaxConcurrency, chunk_size in 1..MaxChunk,
\* object size in 0..MaxSize.
MaxConcurrency == 2
MaxChunk == 2
MaxSize == 11
\* URLReaderKeepAlive: chunk_size in 1..MaxChunk, buffer_size in
\* 3 * chunk_size .. 3 * chunk_size + MaxBufferSlack, size in 0..MaxSize.
MaxBufferSlack == 1
\* The collections: at most MaxTasks tasks are put, with a priority in
\* 1..MaxPriority.
MaxTasks == 3
MaxPriority == 2
\* download: a manifest has at most MaxManifest entries.
MaxManifest == 3
\* _s3_multipart_layouts: sizes up to MaxLayoutMB MiB (and one byte more or
\* less), part counts in 1..MaxParts.
MaxLayoutMB == 6
MaxParts == 4
\* compute_buffer_size: 0..MaxShm bytes of shared memory, enough for more
\* than 100 chunks.
MaxShm == 110
\* SharedCircularBuffer: MaxOps operations on a buffer.
MaxOps == 2
\* S3Etag._etags of a single-part verifier: the entries kept.
MaxEtags == 3

\* ------------------------------------------------------------------- state
\* getm/reader.py, URLReader
VARIABLES
    rd_conc,      \* concurrency
    rd_chunk,     \* chunk_size
    rd_size,      \* self.size, the object's size
    rd_buf,       \* the bytes of self._buf, by physical position
    rd_start,     \* self._start
    rd_stop,      \* self._stop
    rd_futures,   \* future_parts._futures: the parts submitted, oldest first
    rd_scheduled, \* future_parts._scheduled: the parts not yet submitted
    rd_status,    \* part_id -> "wait" | "run" | "done" | "failed"
    rd_pc,        \* the caller: "idle" | "reading" | "held" | "raised"
    rd_sz,        \* sz of the read in progress, after the max_read cap
    rd_view,      \* the view the last read returned, until it is released
    rd_out,       \* the bytes the caller has seen in the views it released
    rd_eof,       \* a read has returned an empty view
    rd_calls,     \* the number of read calls so far, counted up to 3
    rd_kept,      \* the view of a first read(1) the caller did not release
    rd_last       \* the view the most recent read that returned gave

rd_vars == <<rd_conc, rd_chunk, rd_size, rd_buf, rd_start, rd_stop,
             rd_futures, rd_scheduled, rd_status, rd_pc, rd_sz, rd_view,
             rd_out, rd_eof, rd_calls, rd_kept, rd_last>>

\* getm/reader.py, URLReaderKeepAlive
VARIABLES
    ka_chunk,    \* chunk_size
    ka_bufsize,  \* buffer_size, the capacity of the circular buffer
    ka_size,     \* self.size, the object's size
    ka_mode,     \* how the reader is used: "read" | "iter" (iter_content)
    ka_buf,      \* the bytes of the circular buffer, by physical position
    ka_sh_start, \* the shared coordinate buf.start
    ka_sh_stop,  \* the shared coordinate buf.stop
    ka_p_pc,     \* the producer, run(): "loop" | "sleep" | "publish" | "done"
    ka_p_start,  \* run's local start
    ka_p_stop,   \* run's local stop
    ka_pc,       \* the consumer: "idle" | "reading" | "held" | "closed" |
                 \* "raised" (read) and "wait" | "yielded" | "finished" (iter)
    ka_start,    \* the consumer's start (self._start, or iter_content's)
    ka_stop,     \* the consumer's stop (self._stop, or iter_content's)
    ka_sz,       \* sz of the read in progress, after the max_read cap
    ka_view,     \* the view returned or yielded, until it is released
    ka_out,      \* the bytes the caller has seen in the views it released
    ka_eof       \* a read has returned an empty view

ka_vars == <<ka_chunk, ka_bufsize, ka_size, ka_mode, ka_buf, ka_sh_start,
             ka_sh_stop, ka_p_pc, ka_p_start, ka_p_stop, ka_pc, ka_start,
             ka_stop, ka_sz, ka_view, ka_out, ka_eof>>

ka_params == <<ka_chunk, ka_bufsize, ka_size, ka_mode>>
ka_producer == <<ka_p_pc, ka_p_start, ka_p_stop>>
ka_consumer == <<ka_pc, ka_start, ka_stop, ka_sz, ka_view, ka_out, ka_eof>>

\* getm/reader.py, iter_content_unordered
VARIABLES
    uo_conc,     \* concurrency
    uo_chunk,    \* chunk_size
    uo_size,     \* size, the object's size
    uo_buf,      \* the bytes of the SharedBufferArray, by physical position
    uo_todo,     \* parts_to_fetch
    uo_futures,  \* future_parts._futures: the part ids of the pool's futures
    uo_status,   \* part_id -> "todo" | "run" | "done" | "yielded"
    uo_slot,     \* part_id -> the sb_index its task was given
    uo_pc,       \* the generator: "fill" | "put" | "iter" | "yielded" |
                 \* "done" | "raised"
    uo_i,        \* i: the slot of the put in hand
    uo_filling,  \* the generator is in its first loop, for i in range(...)
    uo_need,     \* the completions the put in hand waits for
    uo_snap,     \* the futures as_completed has yet to give in this pass
    uo_view,     \* the pair yielded: [id, pos, len]
    uo_yielded,  \* the pairs <<part_id, bytes>> the caller has seen
    uo_count     \* the number of pairs yielded

uo_vars == <<uo_conc, uo_chunk, uo_size, uo_buf, uo_todo, uo_futures,
             uo_status, uo_slot, uo_pc, uo_i, uo_filling, uo_need, uo_snap,
             uo_view, uo_yielded, uo_count>>

uo_params == <<uo_conc, uo_chunk, uo_size>>

\* getm/cli.py, _download of one url, and the directory of its target
VARIABLES
    dl_size,      \* the object's size
    dl_chunk,     \* default_chunk_size_keep_alive, the size of a part
    dl_threshold, \* multipart_threshold
    dl_cs,        \* the verifier in use: "none" | "null" | "right" | "wrong"
    dl_fed,       \* the bytes cs.update has seen
    dl_dir,       \* path -> inode, 0 for a path that does not exist
    dl_inode,     \* inode -> the contents of the file
    dl_pre,       \* the state of the final path before the call
    dl_pc,        \* the position in _download
    dl_path,      \* "oneshot" | "multipart", once chosen
    dl_handle,    \* the inode the open file object writes to
    dl_count,     \* the bytes of the body written so far
    dl_exc        \* an exception was raised in the body of indirect_open

dl_vars == <<dl_size, dl_chunk, dl_threshold, dl_cs, dl_fed, dl_dir,
             dl_inode, dl_pre, dl_pc, dl_path, dl_handle, dl_count, dl_exc>>

dl_params == <<dl_size, dl_chunk, dl_threshold, dl_cs, dl_pre>>

\* getm/reader.py, part_coords as a generator
VARIABLES
    pl_size,   \* size
    pl_chunk,  \* chunk_size
    pl_id,     \* part_id, the loop variable
    pl_plan,   \* the entries yielded so far
    pl_pc      \* "run" | "done"

pl_vars == <<pl_size, pl_chunk, pl_id, pl_plan, pl_pc>>

\* getm/concurrent/collections.py, one collection, its executor and caller
VARIABLES
    cc_kind,       \* "pool" | "queue" | "heap"
    cc_conc,       \* self.concurrency
    cc_workers,    \* the executor's max_workers
    cc_status,     \* task -> "none" | "scheduled" | "pending" | "running"
                   \*         | "done" | "failed" | "cancelled"
    cc_fset,       \* self._futures of a pool or a heap, a set
    cc_fdeque,     \* self._futures of a queue, a deque
    cc_scheduled,  \* self._scheduled: a deque of tasks (queue), a heap of
                   \* entries (heap)
    cc_nput,       \* the number of tasks put; tasks are numbered as put
    cc_pc,         \* the caller: "idle" | "put_wait" | "abort_wait"
    cc_snap,       \* ConcurrentPool.put: the futures as_completed was given
    cc_need,       \* ConcurrentPool.put: the completions _wait consumes
    cc_isnap,      \* ConcurrentPool.__iter__: what is left of the futures
                   \* its as_completed was given
    cc_given,      \* task -> how its outcome was given to the caller:
                   \* "no" | "result" | "raised" | "cancelled"
    cc_last,       \* what the last get or iteration step gave
    cc_aborted,    \* abort has returned
    cc_ab_nput     \* the number of tasks put when abort was called

cc_vars == <<cc_kind, cc_conc, cc_workers, cc_status, cc_fset, cc_fdeque,
             cc_scheduled, cc_nput, cc_pc, cc_snap, cc_need, cc_isnap,
             cc_given, cc_last, cc_aborted, cc_ab_nput>>

cc_params == <<cc_kind, cc_conc, cc_workers>>

\* getm/cli.py, download and main: the parent process and its workers
VARIABLES
    or_manifest,   \* the manifest, a sequence of [url, path]
    or_access,     \* the urls http.accessable answers for
    or_conc,       \* concurrency
    or_cont,       \* CLI.continue_after_error
    or_i,          \* the entries the first loop of download has passed
    or_pc,         \* "loop" | "drain" | "shutdown" | "main" | "exited"
    or_raised,     \* what leaves download: "none" | "SystemExit"
                   \* | "TypeError"
    or_exit_code,  \* CLI.exit_code in the parent process
    or_child_code, \* CLI.exit_code in the worker processes
    or_status,     \* the exit status of the parent process, once exited
    or_scheduled,  \* cheap._scheduled
    or_futures,    \* cheap._futures
    or_state,      \* entry -> "none" | "inaccessible" | "scheduled"
                   \*          | "running" | "done" | "failed"
    or_started,    \* the entries whose download started, in that order
    or_logged      \* the entries for which log_error wrote resp.text

or_vars == <<or_manifest, or_access, or_conc, or_cont, or_i, or_pc,
             or_raised, or_exit_code, or_child_code, or_status,
             or_scheduled, or_futures, or_state, or_started, or_logged>>

or_params == <<or_manifest, or_access, or_conc, or_cont>>


\* getm/__init__.py, urlopen and iter_content
VARIABLES
    dp_chunk_size,   \* the argument chunk_size (None when left out)
    dp_concurrency,  \* the argument concurrency (None when left out)
    dp_pc,           \* "call" | "returned"
    dp_fn,           \* the function called: "urlopen" | "iter_content"
    dp_reader,       \* the reader class the call went to
    dp_reader_chunk, \* the chunk size handed to it (None when not passed)
    dp_reader_conc   \* the concurrency handed to it (None when not passed)

dp_vars == <<dp_chunk_size, dp_concurrency, dp_pc, dp_fn, dp_reader,
             dp_reader_chunk, dp_reader_conc>>

dp_params == <<dp_chunk_size, dp_concurrency>>

\* getm/checksum.py, _s3_multipart_layouts
VARIABLES
    ly_size,    \* size
    ly_parts,   \* number_of_parts
    ly_pc,      \* "call" | "returned" | "raised"
    ly_out      \* the list returned

ly_vars == <<ly_size, ly_parts, ly_pc, ly_out>>

\* getm/checksum.py, S3Etag
VARIABLES
    et_part_size,          \* S3Etag.part_size
    et_size,               \* the length of the stream
    et_fed,                \* the bytes of the stream passed to update so far
    et_etags,              \* S3Etag._etags
    et_current_md5,        \* the bytes fed to S3Etag._current_md5
    et_current_part_size,  \* S3Etag._current_part_size
    et_pc,                 \* "feeding" | "s3_etag" | "matches", and
                           \* "s3_etag_again" | "matches_again"
    et_pieces,             \* the kinds of piece update was given so far
    et_result              \* what s3_etag or matches returned

et_vars == <<et_part_size, et_size, et_fed, et_etags, et_current_md5,
             et_current_part_size, et_pc, et_pieces, et_result>>

et_params == <<et_part_size, et_size>>

\* getm/http.py, Session.get_range_readinto
VARIABLES
    hr_start,     \* start
    hr_size,      \* size
    hr_buf,       \* the bytes of buf
    hr_attempts,  \* the requests issued so far
    hr_short,     \* the requests that read fewer than size bytes
    hr_last,      \* what the last readinto returned
    hr_pc         \* "loop" | "returned" | "failed" | "http_error"

hr_vars == <<hr_start, hr_size, hr_buf, hr_attempts, hr_short, hr_last,
             hr_pc>>

hr_params == <<hr_start, hr_size>>

\* getm/checksum.py, GETMChecksum as cli.py builds and uses it. Sizes are
\* counted in MiB.
VARIABLES
    vf_size,      \* the size of the object
    vf_parts,     \* the number of parts it was uploaded in
    vf_psize,     \* the part size it was uploaded with
    vf_alg,       \* GETMChecksum.algorithm
    vf_path,      \* "oneshot" | "multipart"
    vf_origin,    \* "none" | "manifest" | "headers"
    vf_s3_set,    \* whether _s3_size and _s3_part_count are set
    vf_has_cs,    \* whether _cs is set
    vf_cs,        \* _cs: the bytes digested, or one S3Etag per layout
    vf_fed,       \* how much of the object update was given
    vf_pc         \* "new" | "built" | "verified" | "mismatch" | "raised"

vf_vars == <<vf_size, vf_parts, vf_psize, vf_alg, vf_path, vf_origin,
             vf_s3_set, vf_has_cs, vf_cs, vf_fed, vf_pc>>

vf_params == <<vf_size, vf_parts, vf_psize, vf_alg, vf_path>>

\* getm/reader.py, URLReaderKeepAlive.compute_buffer_size
VARIABLES
    bs_shm,        \* what available_shared_memory returns
    bs_downloads,  \* concurrent_downloads
    bs_chunk,      \* chunk_size
    bs_pc,         \* "call" | "returned"
    bs_out         \* the value returned

bs_vars == <<bs_shm, bs_downloads, bs_chunk, bs_pc, bs_out>>

\* getm/concurrent/buffers.py, SharedCircularBuffer
VARIABLES
    cb_size,   \* SharedCircularBuffer.size
    cb_mem,    \* the bytes of the buffer, by physical position
    cb_start,  \* the coordinate start
    cb_stop,   \* the coordinate stop
    cb_ops,    \* the operations made so far
    cb_last    \* the last operation, its outcome and the state before it

cb_vars == <<cb_size, cb_mem, cb_start, cb_stop, cb_ops, cb_last>>









\* getm/checksum.py, S3MultiEtag(size, 1): one S3Etag of part_size = size
VARIABLES
    su_size,               \* the object's size, and S3Etag.part_size
    su_fed,                \* the bytes of the object passed to update so far
    su_data,               \* update: what is left of its argument data
    su_etags,              \* S3Etag._etags, its first MaxEtags entries
    su_current_md5,        \* the bytes fed to S3Etag._current_md5
    su_current_part_size,  \* S3Etag._current_part_size
    su_pc,                 \* "idle" | "while" | "s3_etag"
    su_result              \* what s3_etag returned

su_vars == <<su_size, su_fed, su_data, su_etags, su_current_md5,
             su_current_part_size, su_pc, su_result>>


\* streaming_urls/reader.py, iter_content with concurrency
VARIABLES
    si_conc,       \* concurrency
    si_chunk,      \* chunk_size
    si_size,       \* size, the object's size
    si_buf,        \* the bytes of buff, by physical position
    si_futures,    \* future_parts._futures: the parts submitted, oldest first
    si_scheduled,  \* future_parts._scheduled: the parts not yet submitted
    si_status,     \* part_id -> "wait" | "run" | "done"
    si_pc,         \* the generator: "iter" | "yielded" | "done"
    si_view,       \* the view yielded, until the consumer asks for the next
    si_count       \* the number of views yielded

si_vars == <<si_conc, si_chunk, si_size, si_buf, si_futures, si_scheduled,
             si_status, si_pc, si_view, si_count>>

\* What the actions of one component leave alone: the other components.
not_rd == <<ka_vars, uo_vars, dl_vars, pl_vars, cc_vars, or_vars, dp_vars,
        ly_vars, et_vars, hr_vars, bs_vars, cb_vars, vf_vars, su_vars,
        si_vars>>
not_ka == <<rd_vars, uo_vars, dl_vars, pl_vars, cc_vars, or_vars, dp_vars,
        ly_vars, et_vars, hr_vars, bs_vars, cb_vars, vf_vars, su_vars,
        si_vars>>
not_uo == <<rd_vars, ka_vars, dl_vars, pl_vars, cc_vars, or_vars, dp_vars,
        ly_vars, et_vars, hr_vars, bs_vars, cb_vars, vf_vars, su_vars,
        si_vars>>
not_dl == <<rd_vars, ka_vars, uo_vars, pl_vars, cc_vars, or_vars, dp_vars,
        ly_vars, et_vars, hr_vars, bs_vars, cb_vars, vf_vars, su_vars,
        si_vars>>
not_pl == <<rd_vars, ka_vars, uo_vars, dl_vars, cc_vars, or_vars, dp_vars,
        ly_vars, et_vars, hr_vars, bs_vars, cb_vars, vf_vars, su_vars,
        si_vars>>
not_cc == <<rd_vars, ka_vars, uo_vars, dl_vars, pl_vars, or_vars, dp_vars,
        ly_vars, et_vars, hr_vars, bs_vars, cb_vars, vf_vars, su_vars,
        si_vars>>
not_or == <<rd_vars, ka_vars, uo_vars, dl_vars, pl_vars, cc_vars, dp_vars,
        ly_vars, et_vars, hr_vars, bs_vars, cb_vars, vf_vars, su_vars,
        si_vars>>
not_dp == <<rd_vars, ka_vars, uo_vars, dl_vars, pl_vars, cc_vars, or_vars,
        ly_vars, et_vars, hr_vars, bs_vars, cb_vars, vf_vars, su_vars,
        si_vars>>
not_ly == <<rd_vars, ka_vars, uo_vars, dl_vars, pl_vars, cc_vars, or_vars,
        dp_vars, et_vars, hr_vars, bs_vars, cb_vars, vf_vars, su_vars,
        si_vars>>
not_et == <<rd_vars, ka_vars, uo_vars, dl_vars, pl_vars, cc_vars, or_vars,
        dp_vars, ly_vars, hr_vars, bs_vars, cb_vars, vf_vars, su_vars,
        si_vars>>
not_hr == <<rd_vars, ka_vars, uo_vars, dl_vars, pl_vars, cc_vars, or_vars,
        dp_vars, ly_vars, et_vars, bs_vars, cb_vars, vf_vars, su_vars,
        si_vars>>
not_vf == <<rd_vars, ka_vars, uo_vars, dl_vars, pl_vars, cc_vars, or_vars,
        dp_vars, ly_vars, et_vars, hr_vars, bs_vars, cb_vars, su_vars,
        si_vars>>
not_bs == <<rd_vars, ka_vars, uo_vars, dl_vars, pl_vars, cc_vars, or_vars,
        dp_vars, ly_vars, et_vars, hr_vars, cb_vars, vf_vars, su_vars,
        si_vars>>
not_cb == <<rd_vars, ka_vars, uo_vars, dl_vars, pl_vars, cc_vars, or_vars,
        dp_vars, ly_vars, et_vars, hr_vars, bs_vars, vf_vars, su_vars,
        si_vars>>
not_su == <<rd_vars, ka_vars, uo_vars, dl_vars, pl_vars, cc_vars, or_vars,
        dp_vars, ly_vars, et_vars, hr_vars, bs_vars, cb_vars, vf_vars,
        si_vars>>
not_si == <<rd_vars, ka_vars, uo_vars, dl_vars, pl_vars, cc_vars, or_vars,
        dp_vars, ly_vars, et_vars, hr_vars, bs_vars, cb_vars, vf_vars,
        su_vars>>

\* A component that is not in use.
RdIdle ==
    /\ rd_conc = 0 /\ rd_chunk = 0 /\ rd_size = 0 /\ rd_buf = <<>>
    /\ rd_start = 0 /\ rd_stop = 0 /\ rd_futures = <<>>
    /\ rd_scheduled = <<>> /\ rd_status = <<>> /\ rd_pc = "unused"
    /\ rd_sz = 0 /\ rd_view = <<>> /\ rd_out = <<>> /\ rd_eof = FALSE
    /\ rd_calls = 0 /\ rd_kept = <<>> /\ rd_last = <<>>

KaIdle ==
    /\ ka_chunk = 0 /\ ka_bufsize = 0 /\ ka_size = 0 /\ ka_mode = "unused"
    /\ ka_buf = <<>> /\ ka_sh_start = 0 /\ ka_sh_stop = 0
    /\ ka_p_pc = "unused" /\ ka_p_start = 0 /\ ka_p_stop = 0
    /\ ka_pc = "unused" /\ ka_start = 0 /\ ka_stop = 0 /\ ka_sz = 0
    /\ ka_view = <<>> /\ ka_out = <<>> /\ ka_eof = FALSE

UoIdle ==
    /\ uo_conc = 0 /\ uo_chunk = 0 /\ uo_size = 0 /\ uo_buf = <<>>
    /\ uo_todo = <<>> /\ uo_futures = {} /\ uo_status = <<>>
    /\ uo_slot = <<>> /\ uo_pc = "unused" /\ uo_i = 0
    /\ uo_filling = FALSE /\ uo_need = 0 /\ uo_snap = {}
    /\ uo_view = <<>> /\ uo_yielded = {} /\ uo_count = 0

DlIdle ==
    /\ dl_size = 0 /\ dl_chunk = 0 /\ dl_threshold = 0 /\ dl_cs = "unused"
    /\ dl_fed = <<>> /\ dl_dir = <<>> /\ dl_inode = <<>> /\ dl_pre = <<>>
    /\ dl_pc = "unused" /\ dl_path = "unused" /\ dl_handle = 0
    /\ dl_count = 0 /\ dl_exc = FALSE

PlIdle ==
    /\ pl_size = 0 /\ pl_chunk = 0 /\ pl_id = 0 /\ pl_plan = <<>>
    /\ pl_pc = "unused"

CcIdle ==
    /\ cc_kind = "unused" /\ cc_conc = 0 /\ cc_workers = 0
    /\ cc_status = <<>> /\ cc_fset = {} /\ cc_fdeque = <<>>
    /\ cc_scheduled = <<>> /\ cc_nput = 0 /\ cc_pc = "unused"
    /\ cc_snap = {} /\ cc_need = 0 /\ cc_isnap = {} /\ cc_given = <<>> /\ cc_last = <<>>
    /\ cc_aborted = FALSE /\ cc_ab_nput = 0

OrIdle ==
    /\ or_manifest = <<>> /\ or_access = {} /\ or_conc = 0
    /\ or_cont = FALSE /\ or_i = 0 /\ or_pc = "unused"
    /\ or_raised = "unused" /\ or_exit_code = 0 /\ or_child_code = 0
    /\ or_status = 0 /\ or_scheduled = <<>> /\ or_futures = {}
    /\ or_state = <<>> /\ or_started = <<>> /\ or_logged = {}


DpIdle ==
    /\ dp_chunk_size = 0 /\ dp_concurrency = 0 /\ dp_pc = "unused"
    /\ dp_fn = "unused" /\ dp_reader = "unused" /\ dp_reader_chunk = 0
    /\ dp_reader_conc = 0

LyIdle ==
    /\ ly_size = 0 /\ ly_parts = 0 /\ ly_pc = "unused" /\ ly_out = <<>>

EtIdle ==
    /\ et_part_size = 0 /\ et_size = 0 /\ et_fed = 0 /\ et_etags = <<>>
    /\ et_current_md5 = <<>> /\ et_current_part_size = 0
    /\ et_pc = "unused" /\ et_pieces = {} /\ et_result = <<>>

HrIdle ==
    /\ hr_start = 0 /\ hr_size = 0 /\ hr_buf = <<>> /\ hr_attempts = 0
    /\ hr_short = 0 /\ hr_last = 0 /\ hr_pc = "unused"

VfIdle ==
    /\ vf_size = 0 /\ vf_parts = 0 /\ vf_psize = 0 /\ vf_alg = "unused"
    /\ vf_path = "unused" /\ vf_origin = "unused" /\ vf_s3_set = FALSE
    /\ vf_has_cs = FALSE /\ vf_cs = <<>> /\ vf_fed = 0 /\ vf_pc = "unused"

BsIdle ==
    /\ bs_shm = 0 /\ bs_downloads = 0 /\ bs_chunk = 0 /\ bs_pc = "unused"
    /\ bs_out = 0

CbIdle ==
    /\ cb_size = 0 /\ cb_mem = <<>> /\ cb_start = 0 /\ cb_stop = 0
    /\ cb_ops = 0 /\ cb_last = <<>>









SuIdle ==
    /\ su_size = 0 /\ su_fed = 0 /\ su_data = <<>> /\ su_etags = <<>>
    /\ su_current_md5 = <<>> /\ su_current_part_size = 0
    /\ su_pc = "unused" /\ su_result = <<>>


SiIdle ==
    /\ si_conc = 0 /\ si_chunk = 0 /\ si_size = 0 /\ si_buf = <<>>
    /\ si_futures = <<>> /\ si_scheduled = <<>> /\ si_status = <<>>
    /\ si_pc = "unused" /\ si_view = <<>> /\ si_count = 0

\* ----------------------------------------------------------------- helpers
Min(a, b) == IF a <= b THEN a ELSE b

\* The value a byte of shared memory holds before anything is written to it.
Garbage == 0 - 1

\* The object's bytes [a, a + n): the byte at offset k has the value k.
ObjBytes(a, n) == [i \in 1..n |-> a + i - 1]

IsPrefix(s, t) == Len(s) <= Len(t) /\ SubSeq(t, 1, Len(s)) = s

\* ------------------------------------------------- getm/concurrent/buffers.py
\* SharedCircularBuffer._circular_coords for the slice [a, b) of a buffer of
\* `size` bytes.
circular_coords(size, a, b) ==
    LET start == a % size
        stop == b % size
    IN  [start |-> start, stop |-> stop,
         wraps |-> (stop <= start \/ (a # b /\ start = stop))]

\* SharedCircularBuffer.__getitem__: the view of the slice [a, b). A wrapped
\* slice gives only the bytes up to the physical end of the buffer. `off` is
\* the logical offset a, kept to say which bytes the view is meant to hold;
\* `err` is the ValueError of a zero length or oversized slice.
GetItem(size, a, b) ==
    LET c == circular_coords(size, a, b)
    IN  [pos |-> c.start,
         len |-> IF c.wraps THEN size - c.start ELSE c.stop - c.start,
         off |-> a,
         err |-> (a = b \/ size < b - a)]

NoView == [pos |-> 0, len |-> 0, off |-> 0, err |-> FALSE]

\* The bytes a view shows, read from the shared memory `mem`.
ViewBytes(mem, v) == [i \in 1..v.len |-> mem[v.pos + i - 1]]

\* `mem` after n bytes of the object from offset `off` were read into view v.
ReadInto(mem, v, off, n) ==
    [p \in DOMAIN mem |->
        IF p >= v.pos /\ p < v.pos + n THEN off + (p - v.pos) ELSE mem[p]]

\* ------------------------------------------------------------ getm/reader.py
\* _number_of_parts: ceil(size / chunk_size).
number_of_parts(size, chunk_size) == (size + chunk_size - 1) \div chunk_size

\* _part_range with part_size = size % chunk_size for the last part.
part_range_NoOr(size, chunk_size, part_id) ==
    LET start == part_id * chunk_size
    IN  IF part_id = number_of_parts(size, chunk_size) - 1
        THEN <<start, size % chunk_size>>
        ELSE <<start, chunk_size>>

\* _part_range: <<start, part_size>> of part part_id.
part_range(size, chunk_size, part_id) ==
    LET start == part_id * chunk_size
    IN  IF part_id = number_of_parts(size, chunk_size) - 1
        THEN <<start, IF size % chunk_size # 0 THEN size % chunk_size
                      ELSE chunk_size>>
        ELSE <<start, chunk_size>>

\* part_coords: the range plan, <<part_id, start, part_size>> in order.
part_coords(size, chunk_size) ==
    [i \in 1..number_of_parts(size, chunk_size) |->
        <<i - 1>> \o part_range(size, chunk_size, i - 1)]


\* --------------------------------------- getm/concurrent/collections.py
\* ConcurrentQueue._submit without its test of len(self._futures).
QueueSubmit_Unbounded(futures, scheduled, concurrency) ==
    <<futures \o scheduled, <<>>>>

\* ConcurrentQueue._submit: move scheduled tasks to the executor while fewer
\* than `concurrency` futures are held. Gives <<_futures, _scheduled>>.
QueueSubmit(futures, scheduled, concurrency) ==
    LET k == Min(concurrency - Len(futures), Len(scheduled))
    IN  IF k <= 0 THEN <<futures, scheduled>>
        ELSE <<futures \o SubSeq(scheduled, 1, k),
               SubSeq(scheduled, k + 1, Len(scheduled))>>

\* ConcurrentQueue.put: append to _scheduled, then _submit.
QueuePut(q, task, concurrency) ==
    QueueSubmit(q[1], Append(q[2], task), concurrency)

\* The queue after every task of `tasks` was put, in order.
RECURSIVE QueuePutAll(_, _, _)
QueuePutAll(q, tasks, concurrency) ==
    IF tasks = <<>> THEN q
    ELSE QueuePutAll(QueuePut(q, Head(tasks), concurrency), Tail(tasks),
                     concurrency)

\* An entry of ConcurrentHeap._scheduled, (priority * -1, func, args,
\* kwargs): key is the negated priority; of args, url is the first
\* argument and path the second, 0 for None; id names the task and takes
\* no part in a comparison.
HeapItem(key, url, path, id) ==
    [key |-> key, url |-> url, path |-> path, id |-> id]

\* a < b on two entries, as tuples compare: by the first component that
\* differs. "lt", "ge", or "err" for the TypeError of str < None.
ItemCompare(a, b) ==
    IF a.key # b.key THEN (IF a.key < b.key THEN "lt" ELSE "ge")
    ELSE IF a.url # b.url THEN (IF a.url < b.url THEN "lt" ELSE "ge")
    ELSE IF a.path = b.path THEN "ge"
    ELSE IF a.path = 0 \/ b.path = 0 THEN "err"
    ELSE IF a.path < b.path THEN "lt" ELSE "ge"

\* heapq._siftdown(heap, startpos, pos) with newitem = heap[pos]; positions
\* count from 1. Gives the heap and whether a comparison raised.
RECURSIVE SiftDown(_, _, _, _)
SiftDown(heap, startpos, pos, newitem) ==
    IF pos > startpos
    THEN LET parentpos == pos \div 2
             c == ItemCompare(newitem, heap[parentpos])
         IN  IF c = "err" THEN [heap |-> heap, err |-> TRUE]
             ELSE IF c = "lt"
             THEN SiftDown([heap EXCEPT ![pos] = heap[parentpos]], startpos,
                           parentpos, newitem)
             ELSE [heap |-> [heap EXCEPT ![pos] = newitem], err |-> FALSE]
    ELSE [heap |-> [heap EXCEPT ![pos] = newitem], err |-> FALSE]

\* heapq._siftup(heap, pos) with newitem = heap[pos] and startpos the
\* position it was called for.
RECURSIVE SiftUp(_, _, _, _)
SiftUp(heap, startpos, pos, newitem) ==
    LET childpos == 2 * pos
        rightpos == childpos + 1
    IN  IF childpos <= Len(heap)
        THEN LET c == IF rightpos <= Len(heap)
                      THEN ItemCompare(heap[childpos], heap[rightpos])
                      ELSE "lt"
                 child == IF c = "lt" THEN childpos ELSE rightpos
             IN  IF c = "err" THEN [heap |-> heap, err |-> TRUE]
                 ELSE SiftUp([heap EXCEPT ![pos] = heap[child]], startpos,
                             child, newitem)
        ELSE SiftDown(heap, startpos, pos, newitem)

\* heapq.heappush(heap, item).
HeapPush(heap, item) == SiftDown(Append(heap, item), 1, Len(heap) + 1, item)

\* list.pop() in the place of heapq.heappop: the last entry of the list.
HeapPop_Last(heap) ==
    [heap |-> SubSeq(heap, 1, Len(heap) - 1), item |-> heap[Len(heap)],
     err |-> FALSE]

\* heapq.heappop(heap) of a heap that is not empty: the heap left, the
\* item popped, and whether a comparison raised.
HeapPop(heap) ==
    LET lastelt == heap[Len(heap)]
        rest == SubSeq(heap, 1, Len(heap) - 1)
    IN  IF rest = <<>>
        THEN [heap |-> <<>>, item |-> lastelt, err |-> FALSE]
        ELSE LET r == SiftUp(rest, 1, 1, lastelt)
             IN  [heap |-> r.heap, item |-> heap[1], err |-> r.err]

\* ConcurrentHeap._submit: pop entries and submit them while fewer than
\* `concurrency` futures are held. n is the number of futures held, out
\* the ids submitted so far, in order.
RECURSIVE HeapSubmit(_, _, _, _)
HeapSubmit(n, scheduled, concurrency, out) ==
    IF n < concurrency /\ scheduled # <<>>
    THEN LET p == HeapPop(scheduled)
         IN  IF p.err
             THEN [scheduled |-> scheduled, out |-> out, err |-> TRUE]
             ELSE HeapSubmit(n + 1, p.heap, concurrency,
                             Append(out, p.item.id))
    ELSE [scheduled |-> scheduled, out |-> out, err |-> FALSE]

\* ConcurrentHeap.priority_put up to the executor: heappush, then _submit.
HeapPut(n, scheduled, concurrency, item) ==
    LET h == HeapPush(scheduled, item)
    IN  IF h.err THEN [scheduled |-> scheduled, out |-> <<>>, err |-> TRUE]
        ELSE HeapSubmit(n, h.heap, concurrency, <<>>)

\* ------------------------------------------------ getm/reader.py, URLReader
\* A buffer one byte larger than URLReader.__init__ allocates.
ReaderBufferSize_PlusOne(concurrency, chunk_size) ==
    (2 * concurrency + 1) * chunk_size + 1

\* A buffer one chunk smaller than URLReader.__init__ allocates.
ReaderBufferSize_2N(concurrency, chunk_size) == 2 * concurrency * chunk_size

\* URLReader.__init__: the size of the circular buffer.
ReaderBufferSize(concurrency, chunk_size) == (2 * concurrency + 1) * chunk_size

\* URLReader.__init__: max_read.
ReaderMaxRead(concurrency, chunk_size) == concurrency * chunk_size

rd_bufsize == ReaderBufferSize(rd_conc, rd_chunk)

\* URLReader.__init__ for one url, chunk_size and concurrency: the buffer is
\* fresh, every part of the plan was put to the queue.
RdInit ==
    /\ rd_conc \in 1..MaxConcurrency
    /\ rd_chunk \in 1..MaxChunk
    /\ rd_size \in 0..MaxSize
    /\ rd_buf = [p \in 0..(rd_bufsize - 1) |-> Garbage]
    /\ rd_start = 0
    /\ rd_stop = 0
    /\ LET q == QueuePutAll(<< <<>>, <<>> >>,
                            part_coords(rd_size, rd_chunk), rd_conc)
       IN  /\ rd_futures = q[1]
           /\ rd_scheduled = q[2]
           /\ rd_status =
                [p \in 0..(number_of_parts(rd_size, rd_chunk) - 1) |->
                    IF \E i \in 1..Len(q[1]) : q[1][i][1] = p
                    THEN "run" ELSE "wait"]
    /\ rd_pc = "idle"
    /\ rd_sz = 0
    /\ rd_view = NoView
    /\ rd_out = <<>>
    /\ rd_eof = FALSE
    /\ rd_calls = 0
    /\ rd_kept = NoView
    /\ rd_last = NoView

\* The status of the parts after the queue submitted those of new_futures.
RdSubmitted(status, new_futures) ==
    [p \in DOMAIN status |->
        IF status[p] = "wait" /\ \E i \in 1..Len(new_futures) :
                                     new_futures[i][1] = p
        THEN "run" ELSE status[p]]

\* URLReader._fetch_part in a worker process: the range response is read
\* into buf[start : start + part_size].
RdFetchPart(part) ==
    LET v == GetItem(rd_bufsize, part[2], part[2] + part[3])
    IN  /\ rd_status[part[1]] = "run"
        /\ rd_buf' = ReadInto(rd_buf, v, part[2], Min(part[3], v.len))
        /\ rd_status' = [rd_status EXCEPT ![part[1]] =
                            IF v.len = part[3] THEN "done" ELSE "failed"]
        /\ UNCHANGED not_rd
        /\ UNCHANGED rd_last
        /\ UNCHANGED <<rd_conc, rd_chunk, rd_size, rd_start, rd_stop,
                       rd_futures, rd_scheduled, rd_pc, rd_sz, rd_view,
                       rd_out, rd_eof, rd_calls, rd_kept>>

\* _fetch_part failing (an HTTP error, or ten short bodies): k bytes of the
\* part reached the buffer and the task raises.
RdFetchPartFails(part, k) ==
    LET v == GetItem(rd_bufsize, part[2], part[2] + part[3])
    IN  /\ rd_status[part[1]] = "run"
        /\ k < part[3]
        /\ rd_buf' = ReadInto(rd_buf, v, part[2], Min(k, v.len))
        /\ rd_status' = [rd_status EXCEPT ![part[1]] = "failed"]
        /\ UNCHANGED not_rd
        /\ UNCHANGED rd_last
        /\ UNCHANGED <<rd_conc, rd_chunk, rd_size, rd_start, rd_stop,
                       rd_futures, rd_scheduled, rd_pc, rd_sz, rd_view,
                       rd_out, rd_eof, rd_calls, rd_kept>>

\* URLReader.read(n), up to its loop: sz is capped to max_read. A caller
\* that kept the view of its first read(1) goes on holding it through one
\* read(max_read); any other call ends the observation of the kept view.
RdReadBegin(n) ==
    /\ rd_pc = "idle"
    /\ rd_pc' = "reading"
    /\ rd_sz' = Min(IF n = 0 - 1 THEN rd_size ELSE n,
                    ReaderMaxRead(rd_conc, rd_chunk))
    /\ rd_calls' = Min(rd_calls + 1, 3)
    /\ rd_kept' = IF rd_calls = 1 /\ n = ReaderMaxRead(rd_conc, rd_chunk)
                  THEN rd_kept ELSE NoView
    /\ UNCHANGED not_rd
    /\ UNCHANGED rd_last
    /\ UNCHANGED <<rd_conc, rd_chunk, rd_size, rd_buf, rd_start, rd_stop,
                   rd_futures, rd_scheduled, rd_status, rd_view, rd_out,
                   rd_eof>>

\* One turn of read's loop: future_parts.get() returns the oldest part once
\* its task is done (the queue then submits the next scheduled part), or
\* raises what the task raised.
RdReadGet ==
    /\ rd_pc = "reading"
    /\ rd_sz > rd_stop - rd_start
    /\ Len(rd_scheduled) + Len(rd_futures) > 0
    /\ rd_futures # <<>>
    /\ LET part == Head(rd_futures)
           q == QueueSubmit(Tail(rd_futures), rd_scheduled, rd_conc)
       IN  \/ /\ rd_status[part[1]] = "done"
              /\ rd_futures' = q[1]
              /\ rd_scheduled' = q[2]
              /\ rd_status' = RdSubmitted(rd_status, q[1])
              /\ rd_stop' = rd_stop + part[3]
              /\ UNCHANGED rd_pc
           \/ /\ rd_status[part[1]] = "failed"
              /\ rd_futures' = Tail(rd_futures)
              /\ rd_pc' = "raised"
              /\ UNCHANGED <<rd_scheduled, rd_status, rd_stop>>
    /\ UNCHANGED not_rd
    /\ UNCHANGED rd_last
    /\ UNCHANGED <<rd_conc, rd_chunk, rd_size, rd_buf, rd_start, rd_sz,
                   rd_view, rd_out, rd_eof, rd_calls, rd_kept>>

\* RdReadReturn advancing _start by sz instead of len(res).
RdReadReturn_AdvanceBySz ==
    /\ rd_pc = "reading"
    /\ ~(rd_sz > rd_stop - rd_start
         /\ Len(rd_scheduled) + Len(rd_futures) > 0)
    /\ LET sz == Min(rd_sz, rd_stop - rd_start)
           res == GetItem(rd_bufsize, rd_start, rd_start + sz)
       IN  IF sz # 0
           THEN /\ rd_view' = res
                /\ rd_last' = res
                /\ rd_start' = rd_start + sz
                /\ rd_pc' = IF res.err THEN "raised" ELSE "held"
                /\ UNCHANGED rd_eof
           ELSE /\ rd_view' = NoView
                /\ rd_last' = NoView
                /\ rd_eof' = TRUE
                /\ rd_pc' = "idle"
                /\ UNCHANGED rd_start
    /\ UNCHANGED not_rd
    /\ UNCHANGED <<rd_conc, rd_chunk, rd_size, rd_buf, rd_stop, rd_futures,
                   rd_scheduled, rd_status, rd_sz, rd_out, rd_calls, rd_kept>>

\* The end of read: a view of at most sz of the bytes collected, or the
\* empty view.
RdReadReturn ==
    /\ rd_pc = "reading"
    /\ ~(rd_sz > rd_stop - rd_start
         /\ Len(rd_scheduled) + Len(rd_futures) > 0)
    /\ LET sz == Min(rd_sz, rd_stop - rd_start)
           res == GetItem(rd_bufsize, rd_start, rd_start + sz)
       IN  IF sz # 0
           THEN /\ rd_view' = res
                /\ rd_last' = res
                /\ rd_start' = rd_start + res.len
                /\ rd_pc' = IF res.err THEN "raised" ELSE "held"
                /\ UNCHANGED rd_eof
           ELSE /\ rd_view' = NoView
                /\ rd_last' = NoView
                /\ rd_eof' = TRUE
                /\ rd_pc' = "idle"
                /\ UNCHANGED rd_start
    /\ UNCHANGED not_rd
    /\ UNCHANGED <<rd_conc, rd_chunk, rd_size, rd_buf, rd_stop, rd_futures,
                   rd_scheduled, rd_status, rd_sz, rd_out, rd_calls, rd_kept>>

\* The caller reads the bytes of the view and releases it.
RdRelease ==
    /\ rd_pc = "held"
    /\ rd_out' = rd_out \o ViewBytes(rd_buf, rd_view)
    /\ rd_view' = NoView
    /\ rd_pc' = "idle"
    /\ UNCHANGED not_rd
    /\ UNCHANGED rd_last
    /\ UNCHANGED <<rd_conc, rd_chunk, rd_size, rd_buf, rd_start, rd_stop,
                   rd_futures, rd_scheduled, rd_status, rd_sz, rd_eof,
                   rd_calls, rd_kept>>

\* The caller reads the byte of its first read(1) and keeps the view
\* (tests/test_reader.py, test_read_no_overlap).
RdKeep ==
    /\ rd_pc = "held"
    /\ rd_calls = 1
    /\ rd_sz = 1
    /\ rd_out' = rd_out \o ViewBytes(rd_buf, rd_view)
    /\ rd_kept' = rd_view
    /\ rd_view' = NoView
    /\ rd_pc' = "idle"
    /\ UNCHANGED not_rd
    /\ UNCHANGED rd_last
    /\ UNCHANGED <<rd_conc, rd_chunk, rd_size, rd_buf, rd_start, rd_stop,
                   rd_futures, rd_scheduled, rd_status, rd_sz, rd_eof,
                   rd_calls>>

RdParts == {rd_futures[i] : i \in 1..Len(rd_futures)}

RdNext ==
    \/ \E n \in (1..(ReaderMaxRead(rd_conc, rd_chunk) + 1)) \cup {0 - 1} :
          RdReadBegin(n)
    \/ RdReadGet
    \/ RdReadReturn
    \/ RdRelease
    \/ RdKeep
    \/ \E part \in RdParts : RdFetchPart(part)
    \/ \E part \in RdParts, k \in 0..(MaxChunk - 1) : RdFetchPartFails(part, k)

vars == <<rd_vars, ka_vars, uo_vars, dl_vars, pl_vars, cc_vars, or_vars,
        dp_vars, ly_vars, et_vars, hr_vars, bs_vars, cb_vars, vf_vars,
        su_vars, si_vars>>

InitReader == RdInit /\ KaIdle /\ UoIdle /\ DlIdle /\ PlIdle /\ CcIdle /\
        OrIdle /\ DpIdle /\ LyIdle /\ EtIdle /\ HrIdle /\ BsIdle /\ CbIdle /\
        VfIdle /\ SuIdle /\ SiIdle

SpecReader == InitReader /\ [][RdNext]_vars


\* C1: parallel range reader, views released before the next read: what the
\* caller has seen so far is a prefix of the object, the view it holds shows
\* the object's next bytes for as long as it is held, and once a read has
\* returned the empty view the caller has seen the whole object, in order.
C1_ReaderInOrder ==
    /\ IsPrefix(rd_out, ObjBytes(0, rd_size))
    /\ rd_pc = "held" =>
          ViewBytes(rd_buf, rd_view) = ObjBytes(Len(rd_out), rd_view.len)
    /\ rd_eof => rd_out = ObjBytes(0, rd_size)

\* C1 witness: an object larger than the buffer was read to the empty view
\* with two workers, so buffer positions were reused.
C1_Witness ==
    /\ rd_eof
    /\ rd_conc = 2
    /\ rd_size > rd_bufsize
    /\ rd_out = ObjBytes(0, rd_size)

\* The parts whose tasks were submitted to the executor so far.
RdStarted == {p \in DOMAIN rd_status : rd_status[p] # "wait"}

\* The view part p's worker writes to.
RdPartView(p) ==
    LET r == part_range(rd_size, rd_chunk, p)
    IN  GetItem(rd_bufsize, r[1], r[1] + r[2])

\* C5: the caller keeps the view of a first read(1) through one
\* read(max_read): the kept view shows the first byte of the object, and no
\* worker started so far, other than the one of part 0, writes to physical
\* position 0; in particular once the second view is released and no worker
\* is running.
C5_KeptViewIntact ==
    rd_kept.len = 1 =>
        /\ ViewBytes(rd_buf, rd_kept) = ObjBytes(0, 1)
        /\ \A p \in RdStarted : p # 0 => RdPartView(p).pos # 0

\* C5 witness: with two workers, the first view kept, the read(max_read)
\* returned and released, every started worker finished, more parts to come.
C5_Witness ==
    /\ rd_kept.len = 1
    /\ rd_conc = 2
    /\ rd_calls = 2
    /\ rd_pc = "idle"
    /\ rd_start = 1 + ReaderMaxRead(rd_conc, rd_chunk)
    /\ \A p \in RdStarted : rd_status[p] = "done"
    /\ rd_scheduled # <<>>


\* --------------------------------------- getm/reader.py, URLReaderKeepAlive
\* URLReaderKeepAlive.__init__: max_read.
KeepAliveMaxRead(buffer_size, chunk_size) ==
    (buffer_size - chunk_size) * chunk_size

\* close(): the value of start that tells the producer to stop.
Sentinel == 0 - 1

\* URLReaderKeepAlive.__init__ and __enter__: the shared memory is fresh
\* (its coordinates are zero), the producer process was started. In
\* iter_content the generator goes on to set buf.start = 0.
KaInit ==
    /\ ka_chunk \in 1..MaxChunk
    /\ ka_bufsize \in (3 * ka_chunk)..(3 * ka_chunk + MaxBufferSlack)
    /\ ka_size \in 0..MaxSize
    /\ ka_mode \in {"read", "iter"}
    /\ ka_buf = [p \in 0..(ka_bufsize - 1) |-> Garbage]
    /\ ka_sh_start = 0
    /\ ka_sh_stop = 0
    /\ ka_p_pc = "loop"
    /\ ka_p_start = 0
    /\ ka_p_stop = 0
    /\ ka_pc = IF ka_mode = "read" THEN "idle" ELSE "wait"
    /\ ka_start = 0
    /\ ka_stop = 0
    /\ ka_sz = 0
    /\ ka_view = NoView
    /\ ka_out = <<>>
    /\ ka_eof = FALSE

\* KaNoRoom asking for the room of three chunks.
KaNoRoom_ThreeChunks(stop, start, chunk_size, buffer_size) ==
    stop - start + 3 * chunk_size >= buffer_size

\* KaNoRoom without the room for the chunk about to be read.
KaNoRoom_BufferFull(stop, start, chunk_size, buffer_size) ==
    stop - start >= buffer_size

\* run(): the test of its inner loop, no room for another chunk.
KaNoRoom(stop, start, chunk_size, buffer_size) ==
    stop - start + chunk_size >= buffer_size

\* run(), one turn of the outer loop: with no room the producer goes to
\* sleep; otherwise handle.readinto(buf[stop: stop + chunk_size]) reads n
\* bytes of the stream, any number from 1 to what the view and the stream
\* hold, and 0 at the end of the stream, which ends run.
KaRunLoop ==
    /\ ka_p_pc = "loop"
    /\ IF KaNoRoom(ka_p_stop, ka_p_start, ka_chunk, ka_bufsize)
       THEN /\ ka_p_pc' = "sleep"
            /\ UNCHANGED <<ka_buf, ka_p_stop>>
       ELSE LET v == GetItem(ka_bufsize, ka_p_stop, ka_p_stop + ka_chunk)
                most == Min(v.len, ka_size - ka_p_stop)
            IN  IF most = 0
                THEN /\ ka_p_pc' = "done"
                     /\ UNCHANGED <<ka_buf, ka_p_stop>>
                ELSE \E n \in 1..most :
                        /\ ka_buf' = ReadInto(ka_buf, v, ka_p_stop, n)
                        /\ ka_p_stop' = ka_p_stop + n
                        /\ ka_p_pc' = "publish"
    /\ UNCHANGED not_ka
    /\ UNCHANGED <<ka_params, ka_sh_start, ka_sh_stop, ka_p_start,
                   ka_consumer>>

\* run(): buf.stop = stop.
KaRunPublish ==
    /\ ka_p_pc = "publish"
    /\ ka_sh_stop' = ka_p_stop
    /\ ka_p_pc' = "loop"
    /\ UNCHANGED not_ka
    /\ UNCHANGED <<ka_params, ka_buf, ka_sh_start, ka_p_start, ka_p_stop,
                   ka_consumer>>

\* KaRunSleep without the test for the sentinel.
KaRunSleep_NoSentinel ==
    /\ ka_p_pc = "sleep"
    /\ ka_p_start' = ka_sh_start
    /\ ka_p_pc' = "loop"
    /\ UNCHANGED not_ka
    /\ UNCHANGED <<ka_params, ka_buf, ka_sh_start, ka_sh_stop, ka_p_stop,
                   ka_consumer>>

\* run(), the inner loop: after the sleep, start = buf.start; the sentinel
\* ends run.
KaRunSleep ==
    /\ ka_p_pc = "sleep"
    /\ ka_p_start' = ka_sh_start
    /\ ka_p_pc' = IF ka_sh_start = Sentinel THEN "done" ELSE "loop"
    /\ UNCHANGED not_ka
    /\ UNCHANGED <<ka_params, ka_buf, ka_sh_start, ka_sh_stop, ka_p_stop,
                   ka_consumer>>

\* read(n), up to its loop: buf.start = self._start, sz capped to max_read.
KaReadBegin(n) ==
    /\ ka_mode = "read"
    /\ ka_pc = "idle"
    /\ ka_sh_start' = ka_start
    /\ ka_sz' = Min(IF n = 0 - 1 THEN KeepAliveMaxRead(ka_bufsize, ka_chunk)
                    ELSE n,
                    KeepAliveMaxRead(ka_bufsize, ka_chunk))
    /\ ka_pc' = "reading"
    /\ UNCHANGED not_ka
    /\ UNCHANGED <<ka_params, ka_buf, ka_sh_stop, ka_producer, ka_start,
                   ka_stop, ka_view, ka_out, ka_eof>>

\* read, one turn of its loop: self._stop = self._buf.stop.
KaReadPoll ==
    /\ ka_pc = "reading"
    /\ ka_sz > ka_stop - ka_start /\ ka_stop < ka_size
    /\ ka_stop' = ka_sh_stop
    /\ UNCHANGED not_ka
    /\ UNCHANGED <<ka_params, ka_buf, ka_sh_start, ka_sh_stop, ka_producer,
                   ka_pc, ka_start, ka_sz, ka_view, ka_out, ka_eof>>

\* KaReadReturn advancing _start by sz instead of len(res).
KaReadReturn_AdvanceBySz ==
    /\ ka_pc = "reading"
    /\ ~(ka_sz > ka_stop - ka_start /\ ka_stop < ka_size)
    /\ LET sz == Min(ka_sz, ka_stop - ka_start)
           res == GetItem(ka_bufsize, ka_start, ka_start + sz)
       IN  IF sz # 0
           THEN /\ ka_view' = res
                /\ ka_start' = ka_start + sz
                /\ ka_pc' = IF res.err THEN "raised" ELSE "held"
                /\ UNCHANGED ka_eof
           ELSE /\ ka_view' = NoView
                /\ ka_eof' = TRUE
                /\ ka_pc' = "idle"
                /\ UNCHANGED ka_start
    /\ UNCHANGED not_ka
    /\ UNCHANGED <<ka_params, ka_buf, ka_sh_start, ka_sh_stop, ka_producer,
                   ka_stop, ka_sz, ka_out>>

\* KaReadReturn without the wait for stop: read returns what it has.
KaReadReturn_NoWait ==
    /\ ka_pc = "reading"
    /\ LET sz == Min(ka_sz, ka_stop - ka_start)
           res == GetItem(ka_bufsize, ka_start, ka_start + sz)
       IN  IF sz # 0
           THEN /\ ka_view' = res
                /\ ka_start' = ka_start + res.len
                /\ ka_pc' = IF res.err THEN "raised" ELSE "held"
                /\ UNCHANGED ka_eof
           ELSE /\ ka_view' = NoView
                /\ ka_eof' = TRUE
                /\ ka_pc' = "idle"
                /\ UNCHANGED ka_start
    /\ UNCHANGED not_ka
    /\ UNCHANGED <<ka_params, ka_buf, ka_sh_start, ka_sh_stop, ka_producer,
                   ka_stop, ka_sz, ka_out>>

\* The end of read: a view of at most sz of the bytes published, or the
\* empty view.
KaReadReturn ==
    /\ ka_pc = "reading"
    /\ ~(ka_sz > ka_stop - ka_start /\ ka_stop < ka_size)
    /\ LET sz == Min(ka_sz, ka_stop - ka_start)
           res == GetItem(ka_bufsize, ka_start, ka_start + sz)
       IN  IF sz # 0
           THEN /\ ka_view' = res
                /\ ka_start' = ka_start + res.len
                /\ ka_pc' = IF res.err THEN "raised" ELSE "held"
                /\ UNCHANGED ka_eof
           ELSE /\ ka_view' = NoView
                /\ ka_eof' = TRUE
                /\ ka_pc' = "idle"
                /\ UNCHANGED ka_start
    /\ UNCHANGED not_ka
    /\ UNCHANGED <<ka_params, ka_buf, ka_sh_start, ka_sh_stop, ka_producer,
                   ka_stop, ka_sz, ka_out>>

\* The caller of read reads the bytes of the view and releases it.
KaRelease ==
    /\ ka_pc = "held"
    /\ ka_out' = ka_out \o ViewBytes(ka_buf, ka_view)
    /\ ka_view' = NoView
    /\ ka_pc' = "idle"
    /\ UNCHANGED not_ka
    /\ UNCHANGED <<ka_params, ka_buf, ka_sh_start, ka_sh_stop, ka_producer,
                   ka_start, ka_stop, ka_sz, ka_eof>>

\* close(): buf.start = -1.
KaClose ==
    /\ ka_pc = "idle"
    /\ ka_sh_start' = Sentinel
    /\ ka_pc' = "closed"
    /\ UNCHANGED not_ka
    /\ UNCHANGED <<ka_params, ka_buf, ka_sh_stop, ka_producer, ka_start,
                   ka_stop, ka_sz, ka_view, ka_out, ka_eof>>

\* iter_content, one turn of its inner loop: stop = reader._buf.stop.
KaIterPoll ==
    /\ ka_pc = "wait"
    /\ ka_stop - ka_start < ka_chunk /\ ka_stop < ka_size
    /\ ka_stop' = ka_sh_stop
    /\ UNCHANGED not_ka
    /\ UNCHANGED <<ka_params, ka_buf, ka_sh_start, ka_sh_stop, ka_producer,
                   ka_pc, ka_start, ka_sz, ka_view, ka_out, ka_eof>>

\* iter_content after its inner loop: with nothing left the generator ends
\* and the reader is closed (buf.start = -1); otherwise the view of
\* [start, start + read_length) is yielded and start advances by
\* read_length.
KaIterYield ==
    /\ ka_pc = "wait"
    /\ ~(ka_stop - ka_start < ka_chunk /\ ka_stop < ka_size)
    /\ LET read_length == Min(ka_chunk, ka_stop - ka_start)
           res == GetItem(ka_bufsize, ka_start, ka_start + read_length)
       IN  IF read_length = 0
           THEN /\ ka_pc' = "finished"
                /\ ka_sh_start' = Sentinel
                /\ UNCHANGED <<ka_view, ka_start>>
           ELSE /\ ka_view' = res
                /\ ka_start' = ka_start + read_length
                /\ ka_pc' = "yielded"
                /\ UNCHANGED ka_sh_start
    /\ UNCHANGED not_ka
    /\ UNCHANGED <<ka_params, ka_buf, ka_sh_stop, ka_producer, ka_stop,
                   ka_sz, ka_out, ka_eof>>

\* The caller of iter_content reads the bytes of the view and asks for the
\* next one: the view is released and buf.start = start.
KaIterResume ==
    /\ ka_pc = "yielded"
    /\ ka_out' = ka_out \o ViewBytes(ka_buf, ka_view)
    /\ ka_view' = NoView
    /\ ka_sh_start' = ka_start
    /\ ka_pc' = "wait"
    /\ UNCHANGED not_ka
    /\ UNCHANGED <<ka_params, ka_buf, ka_sh_stop, ka_producer, ka_start,
                   ka_stop, ka_sz, ka_eof>>

KaNext ==
    \/ KaRunLoop
    \/ KaRunPublish
    \/ KaRunSleep
    \/ \E n \in (1..(ka_bufsize + 1)) \cup {0 - 1} : KaReadBegin(n)
    \/ KaReadPoll
    \/ KaReadReturn
    \/ KaRelease
    \/ KaClose
    \/ KaIterPoll
    \/ KaIterYield
    \/ KaIterResume

InitKeepAlive == KaInit /\ RdIdle /\ UoIdle /\ DlIdle /\ PlIdle /\ CcIdle /\
        OrIdle /\ DpIdle /\ LyIdle /\ EtIdle /\ HrIdle /\ BsIdle /\ CbIdle /\
        VfIdle /\ SuIdle /\ SiIdle

SpecKeepAlive == InitKeepAlive /\ [][KaNext]_vars


\* C2: keep-alive reader, read path, views released before the next read:
\* what the caller has seen so far is a prefix of the object and the view it
\* holds shows the object's next bytes for as long as it is held: no byte is
\* skipped, repeated or overwritten before the caller has seen it.
C2_KeepAliveReadInOrder ==
    ka_mode = "read" =>
        /\ IsPrefix(ka_out, ObjBytes(0, ka_size))
        /\ ka_pc = "held" =>
              ViewBytes(ka_buf, ka_view) = ObjBytes(Len(ka_out), ka_view.len)
        /\ ka_eof => ka_out = ObjBytes(0, ka_size)

\* C2 witness: an object larger than the buffer was read to the empty view,
\* the producer having waited for room and a view having stopped at the
\* physical end of the buffer.
C2_Witness ==
    /\ ka_mode = "read"
    /\ ka_chunk = 2
    /\ ka_size > ka_bufsize
    /\ ka_eof
    /\ ka_p_start > 0
    /\ ka_out = ObjBytes(0, ka_size)

\* C3: keep-alive reader, iter_content, any buffer_size >= 3 * chunk_size:
\* every yielded view has as many bytes as start advanced by, and the views
\* concatenate to the whole object once the generator has ended.
C3_IterExact ==
    ka_mode = "iter" =>
        /\ ka_start = Len(ka_out)
                        + (IF ka_pc = "yielded" THEN ka_view.len ELSE 0)
        /\ ka_pc = "finished" => ka_out = ObjBytes(0, ka_size)

\* C4: keep-alive reader, before close() writes the sentinel: the shared
\* coordinates satisfy 0 <= stop - start <= capacity, the producer's stop is
\* never past start + capacity, and the consumer's published start is never
\* past stop.
C4_Coordinates ==
    ka_sh_start # Sentinel =>
        /\ 0 <= ka_sh_stop - ka_sh_start
        /\ ka_sh_stop - ka_sh_start <= ka_bufsize
        /\ ka_p_stop <= ka_sh_start + ka_bufsize
        /\ ka_sh_start <= ka_sh_stop

\* C4 witness: the consumer has published a start past the first lap of the
\* buffer and the producer has filled the buffer as far as run() lets it.
C4_Witness ==
    /\ ka_sh_start > ka_bufsize
    /\ ka_sh_stop - ka_sh_start = ka_bufsize - 1
    /\ ka_p_start > 0


\* ----------------------------------- getm/reader.py, iter_content_unordered
\* ConcurrentPool.put, up to its submit: _wait(running - concurrency) draws
\* from as_completed(self._futures) once more than `count` times (zip asks
\* its first argument first), so put waits for this many of the pool's
\* futures to be done.
PoolPutNeed(n_futures, n_running, concurrency) ==
    Min((IF n_running - concurrency > 0 THEN n_running - concurrency ELSE 0)
            + 1,
        n_futures)

UoDone == {p \in uo_futures : uo_status[p] = "done"}
UoRunning == {p \in uo_futures : uo_status[p] = "run"}

\* iter_content_unordered up to its first loop: the plan is in
\* parts_to_fetch, the buffer array and the pool are fresh.
UoInit ==
    /\ uo_conc \in 1..MaxConcurrency
    /\ uo_chunk \in 1..MaxChunk
    /\ uo_size \in 0..MaxSize
    /\ uo_buf = [p \in 0..(uo_chunk * uo_conc - 1) |-> Garbage]
    /\ uo_todo = part_coords(uo_size, uo_chunk)
    /\ uo_futures = {}
    /\ uo_status = [p \in 0..(number_of_parts(uo_size, uo_chunk) - 1) |->
                        "todo"]
    /\ uo_slot = [p \in 0..(number_of_parts(uo_size, uo_chunk) - 1) |-> 0]
    /\ uo_pc = "fill"
    /\ uo_i = 0
    /\ uo_filling = TRUE
    /\ uo_need = 0
    /\ uo_snap = {}
    /\ uo_view = [id |-> 0, pos |-> 0, len |-> 0]
    /\ uo_yielded = {}
    /\ uo_count = 0

\* The first loop, for i in range(concurrency): parts_to_fetch.popleft()
\* raises IndexError on an empty deque; otherwise put is called for slot i.
\* After the loop the iteration of the pool starts.
UoFill ==
    /\ uo_pc = "fill"
    /\ IF uo_i >= uo_conc
       THEN /\ uo_pc' = "iter"
            /\ uo_filling' = FALSE
            /\ UNCHANGED uo_need
       ELSE IF uo_todo = <<>>
       THEN /\ uo_pc' = "raised"
            /\ UNCHANGED <<uo_filling, uo_need>>
       ELSE /\ uo_pc' = "put"
            /\ uo_need' = PoolPutNeed(Cardinality(uo_futures),
                                      Cardinality(UoRunning), uo_conc)
            /\ UNCHANGED uo_filling
    /\ UNCHANGED not_uo
    /\ UNCHANGED <<uo_params, uo_buf, uo_todo, uo_futures, uo_status,
                   uo_slot, uo_i, uo_snap, uo_view, uo_yielded, uo_count>>

\* ConcurrentPool.put once its wait is over: the head of parts_to_fetch is
\* submitted with slot i.
UoPut ==
    /\ uo_pc = "put"
    /\ Cardinality(UoDone) >= uo_need
    /\ LET part == Head(uo_todo)
       IN  /\ uo_todo' = Tail(uo_todo)
           /\ uo_futures' = uo_futures \cup {part[1]}
           /\ uo_status' = [uo_status EXCEPT ![part[1]] = "run"]
           /\ uo_slot' = [uo_slot EXCEPT ![part[1]] = uo_i]
    /\ uo_pc' = IF uo_filling THEN "fill" ELSE "iter"
    /\ uo_i' = IF uo_filling THEN uo_i + 1 ELSE uo_i
    /\ UNCHANGED not_uo
    /\ UNCHANGED <<uo_params, uo_buf, uo_filling, uo_need, uo_snap, uo_view,
                   uo_yielded, uo_count>>

\* _fetch_part_uo in a worker process: the range response is read into
\* buf[sb_index][:part_size].
UoFetchPart(p) ==
    /\ uo_status[p] = "run"
    /\ LET r == part_range(uo_size, uo_chunk, p)
           v == [pos |-> uo_slot[p] * uo_chunk, len |-> Min(r[2], uo_chunk)]
       IN  uo_buf' = ReadInto(uo_buf, v, r[1], v.len)
    /\ uo_status' = [uo_status EXCEPT ![p] = "done"]
    /\ UNCHANGED not_uo
    /\ UNCHANGED <<uo_params, uo_todo, uo_futures, uo_slot, uo_pc, uo_i,
                   uo_filling, uo_need, uo_snap, uo_view, uo_yielded,
                   uo_count>>

\* UoIterNext giving slot 0 to the next put, whatever slot came free.
UoIterNext_SlotZero ==
    /\ uo_pc = "iter"
    /\ LET pass == IF uo_snap = {} THEN uo_futures ELSE uo_snap
       IN  IF pass = {}
           THEN /\ uo_pc' = "done"
                /\ UNCHANGED <<uo_futures, uo_status, uo_snap, uo_view, uo_i>>
           ELSE \E p \in pass :
                   /\ uo_status[p] = "done"
                   /\ uo_futures' = uo_futures \ {p}
                   /\ uo_snap' = pass \ {p}
                   /\ uo_status' = [uo_status EXCEPT ![p] = "yielded"]
                   /\ uo_view' = [id |-> p, pos |-> uo_slot[p] * uo_chunk,
                                  len |-> Min(part_range(uo_size, uo_chunk,
                                                         p)[2], uo_chunk)]
                   /\ uo_i' = 0
                   /\ uo_pc' = "yielded"
    /\ UNCHANGED not_uo
    /\ UNCHANGED <<uo_params, uo_buf, uo_todo, uo_slot, uo_filling, uo_need,
                   uo_yielded, uo_count>>

\* ConcurrentPool.__iter__, one step: as_completed works on the futures the
\* pool held when its pass began; a done future of the pass is removed from
\* the pool and its part is yielded. With no future left the generator
\* ends.
UoIterNext ==
    /\ uo_pc = "iter"
    /\ LET pass == IF uo_snap = {} THEN uo_futures ELSE uo_snap
       IN  IF pass = {}
           THEN /\ uo_pc' = "done"
                /\ UNCHANGED <<uo_futures, uo_status, uo_snap, uo_view, uo_i>>
           ELSE \E p \in pass :
                   /\ uo_status[p] = "done"
                   /\ uo_futures' = uo_futures \ {p}
                   /\ uo_snap' = pass \ {p}
                   /\ uo_status' = [uo_status EXCEPT ![p] = "yielded"]
                   /\ uo_view' = [id |-> p, pos |-> uo_slot[p] * uo_chunk,
                                  len |-> Min(part_range(uo_size, uo_chunk,
                                                         p)[2], uo_chunk)]
                   /\ uo_i' = uo_slot[p]
                   /\ uo_pc' = "yielded"
    /\ UNCHANGED not_uo
    /\ UNCHANGED <<uo_params, uo_buf, uo_todo, uo_slot, uo_filling, uo_need,
                   uo_yielded, uo_count>>

\* The caller reads the bytes of the view and asks for the next pair: the
\* view is released and, with parts left to fetch, put is called for the
\* slot that came free.
UoResume ==
    /\ uo_pc = "yielded"
    /\ uo_yielded' = uo_yielded \cup
            {<<uo_view.id, ViewBytes(uo_buf, uo_view)>>}
    /\ uo_count' = uo_count + 1
    /\ IF uo_todo # <<>>
       THEN /\ uo_pc' = "put"
            /\ uo_need' = PoolPutNeed(Cardinality(uo_futures),
                                      Cardinality(UoRunning), uo_conc)
       ELSE /\ uo_pc' = "iter"
            /\ UNCHANGED uo_need
    /\ UNCHANGED not_uo
    /\ UNCHANGED <<uo_params, uo_buf, uo_todo, uo_futures, uo_status,
                   uo_slot, uo_i, uo_filling, uo_snap, uo_view>>

UoNext ==
    \/ UoFill
    \/ UoPut
    \/ \E p \in uo_futures : UoFetchPart(p)
    \/ UoIterNext
    \/ UoResume

InitUnordered == UoInit /\ RdIdle /\ KaIdle /\ DlIdle /\ PlIdle /\ CcIdle /\
        OrIdle /\ DpIdle /\ LyIdle /\ EtIdle /\ HrIdle /\ BsIdle /\ CbIdle /\
        VfIdle /\ SuIdle /\ SiIdle

SpecUnordered == InitUnordered /\ [][UoNext]_vars

\* The pairs the range plan calls for: each part's id with its bytes.
UoPlanPairs ==
    {<<p, ObjBytes(part_range(uo_size, uo_chunk, p)[1],
                   part_range(uo_size, uo_chunk, p)[2])>> :
        p \in 0..(number_of_parts(uo_size, uo_chunk) - 1)}

\* C6: iter_content_unordered, any size, chunk_size and concurrency, also
\* with fewer parts than concurrency: the generator raises no error, and
\* when it ends it has yielded each part of the plan once, with its bytes,
\* and nothing else.
C6_UnorderedComplete ==
    /\ uo_pc # "raised"
    /\ uo_yielded \subseteq UoPlanPairs
    /\ uo_pc = "done" =>
          /\ uo_yielded = UoPlanPairs
          /\ uo_count = number_of_parts(uo_size, uo_chunk)


\* ------------------------------------- getm/cli.py and getm/utils.py
\* A directory holds the final path and, in indirect_open, the temporary
\* path beside it; a path names an inode (0: the path does not exist) and
\* an inode has contents, so a hard link shows as two paths of one inode.
\* A write to a file either completes or raises.

\* The contents of the file that is at the final path before the call.
OldData == <<254, 255>>
OldInode == 1
NewInode == 2

FileAbsent == [exists |-> FALSE, data |-> <<>>]
FileOf(data) == [exists |-> TRUE, data |-> data]

\* What a reader of `path` finds.
FileAt(dir, inode, path) ==
    IF dir[path] = 0 THEN FileAbsent ELSE FileOf(inode[dir[path]])

\* open(path, "wb"): an existing file is truncated, a missing one created.
\* Gives <<dir, inode, the inode opened>>.
FsOpenWrite(dir, inode, path) ==
    IF dir[path] # 0
    THEN <<dir, [inode EXCEPT ![dir[path]] = <<>>], dir[path]>>
    ELSE <<[dir EXCEPT ![path] = NewInode],
           [inode EXCEPT ![NewInode] = <<>>], NewInode>>

\* indirect_open.__init__ with tmp the temporary path beside the final one.
IndirectPath_Final == "final"

\* indirect_open.__init__: self.tmp, a fresh name in the directory of
\* filepath.
IndirectPath == "tmp"

\* The verifier's matches(): the digest of the bytes fed so far is the
\* expected one. A digest stands for the bytes it was computed from; the
\* expected digest of a "wrong" verifier is that of no stream of the object.
DlMatches(fed) ==
    \/ dl_cs = "null"
    \/ dl_cs = "right" /\ fed = ObjBytes(0, dl_size)

\* _download called for a url: the final path is missing or holds an older
\* file, the verifier is the manifest's, the one of the headers, or none.
DlInit ==
    /\ dl_size \in 0..MaxSize
    /\ dl_chunk \in 1..MaxChunk
    /\ dl_threshold \in {0, MaxSize}
    /\ dl_cs \in {"none", "null", "right", "wrong"}
    /\ dl_fed = <<>>
    /\ dl_dir \in {[final |-> 0, tmp |-> 0], [final |-> OldInode, tmp |-> 0]}
    /\ dl_inode = [i \in {OldInode, NewInode} |->
                      IF i = OldInode THEN OldData ELSE <<>>]
    /\ dl_pre = FileAt(dl_dir, dl_inode, "final")
    /\ dl_pc = "start"
    /\ dl_path = "none"
    /\ dl_handle = 0
    /\ dl_count = 0
    /\ dl_exc = FALSE

\* _download: oneshot when multipart_threshold >= size, else multipart.
DlDownload ==
    /\ dl_pc = "start"
    /\ IF dl_threshold >= dl_size
       THEN dl_path' = "oneshot" /\ dl_pc' = "os_read"
       ELSE dl_path' = "multipart" /\ dl_pc' = "mp_enter"
    /\ UNCHANGED not_dl
    /\ UNCHANGED <<dl_params, dl_fed, dl_dir, dl_inode, dl_handle, dl_count,
                   dl_exc>>

\* oneshot: URLRawReader(url) and handle.read(), either of which may raise.
DlOsRead ==
    /\ dl_pc = "os_read"
    /\ dl_pc' \in {"os_check", "raised"}
    /\ UNCHANGED not_dl
    /\ UNCHANGED <<dl_params, dl_fed, dl_dir, dl_inode, dl_path, dl_handle,
                   dl_count, dl_exc>>

\* DlOsCheck without its assert.
DlOsCheck_NoAssert ==
    /\ dl_pc = "os_check"
    /\ dl_fed' = IF dl_cs # "none" THEN ObjBytes(0, dl_size) ELSE dl_fed
    /\ dl_pc' = "os_open"
    /\ UNCHANGED not_dl
    /\ UNCHANGED <<dl_params, dl_dir, dl_inode, dl_path, dl_handle,
                   dl_count, dl_exc>>

\* oneshot: with a verifier, cs.update(data) and assert cs.matches().
DlOsCheck ==
    /\ dl_pc = "os_check"
    /\ dl_fed' = IF dl_cs # "none" THEN ObjBytes(0, dl_size) ELSE dl_fed
    /\ dl_pc' = IF dl_cs # "none" /\ ~DlMatches(dl_fed')
                THEN "raised" ELSE "os_open"
    /\ UNCHANGED not_dl
    /\ UNCHANGED <<dl_params, dl_dir, dl_inode, dl_path, dl_handle,
                   dl_count, dl_exc>>

\* oneshot: open(filepath, "wb", buffering=0).
DlOsOpen ==
    /\ dl_pc = "os_open"
    /\ LET o == FsOpenWrite(dl_dir, dl_inode, "final")
       IN  dl_dir' = o[1] /\ dl_inode' = o[2] /\ dl_handle' = o[3]
    /\ dl_pc' = "os_write"
    /\ UNCHANGED not_dl
    /\ UNCHANGED <<dl_params, dl_fed, dl_path, dl_count, dl_exc>>

\* oneshot: fh.write(data) writes the body, or raises after k of its bytes.
DlOsWrite(k) ==
    /\ dl_pc = "os_write"
    /\ dl_inode' = [dl_inode EXCEPT ![dl_handle] = ObjBytes(0, k)]
    /\ dl_count' = k
    /\ dl_pc' = IF k = dl_size THEN "done" ELSE "raised"
    /\ UNCHANGED not_dl
    /\ UNCHANGED <<dl_params, dl_fed, dl_dir, dl_path, dl_handle, dl_exc>>

\* multipart: indirect_open.__enter__, open(self.tmp, "wb", buffering=0).
DlEnter ==
    /\ dl_pc = "mp_enter"
    /\ LET o == FsOpenWrite(dl_dir, dl_inode, IndirectPath)
       IN  dl_dir' = o[1] /\ dl_inode' = o[2] /\ dl_handle' = o[3]
    /\ dl_pc' = "mp_loop"
    /\ UNCHANGED not_dl
    /\ UNCHANGED <<dl_params, dl_fed, dl_path, dl_count, dl_exc>>

\* multipart, one turn of its loop: the next part of the keep-alive reader
\* is written to the handle and fed to the verifier.
DlMpPart ==
    /\ dl_pc = "mp_loop"
    /\ dl_count < dl_size
    /\ LET part == ObjBytes(dl_count, Min(dl_chunk, dl_size - dl_count))
       IN  /\ dl_inode' = [dl_inode EXCEPT ![dl_handle] = @ \o part]
           /\ dl_fed' = IF dl_cs # "none" THEN dl_fed \o part ELSE dl_fed
           /\ dl_count' = dl_count + Len(part)
    /\ UNCHANGED not_dl
    /\ UNCHANGED <<dl_params, dl_dir, dl_pc, dl_path, dl_handle, dl_exc>>

\* multipart: the reader or handle.write raises inside the loop.
DlMpRaises ==
    /\ dl_pc = "mp_loop"
    /\ dl_exc' = TRUE
    /\ dl_pc' = "exit_close"
    /\ UNCHANGED not_dl
    /\ UNCHANGED <<dl_params, dl_fed, dl_dir, dl_inode, dl_path, dl_handle,
                   dl_count>>

\* multipart after its loop: with a verifier, assert cs.matches().
DlMpCheck ==
    /\ dl_pc = "mp_loop"
    /\ dl_count = dl_size
    /\ dl_exc' = (dl_cs # "none" /\ ~DlMatches(dl_fed))
    /\ dl_pc' = "exit_close"
    /\ UNCHANGED not_dl
    /\ UNCHANGED <<dl_params, dl_fed, dl_dir, dl_inode, dl_path, dl_handle,
                   dl_count>>

\* DlExitClose going on to the link whatever exc_type is.
DlExitClose_IgnoreExc ==
    /\ dl_pc = "exit_close"
    /\ dl_handle' = 0
    /\ dl_pc' = "exit_isfile"
    /\ UNCHANGED not_dl
    /\ UNCHANGED <<dl_params, dl_fed, dl_dir, dl_inode, dl_path, dl_count,
                   dl_exc>>

\* indirect_open.__exit__: self.handle.close(), and the test of exc_type.
DlExitClose ==
    /\ dl_pc = "exit_close"
    /\ dl_handle' = 0
    /\ dl_pc' = IF dl_exc THEN "exit_rmtmp" ELSE "exit_isfile"
    /\ UNCHANGED not_dl
    /\ UNCHANGED <<dl_params, dl_fed, dl_dir, dl_inode, dl_path, dl_count,
                   dl_exc>>

\* __exit__: if os.path.isfile(self.filepath): os.remove(self.filepath).
DlExitRemoveFinal ==
    /\ dl_pc = "exit_isfile"
    /\ dl_dir' = [dl_dir EXCEPT !["final"] = 0]
    /\ dl_pc' = "exit_link"
    /\ UNCHANGED not_dl
    /\ UNCHANGED <<dl_params, dl_fed, dl_inode, dl_path, dl_handle,
                   dl_count, dl_exc>>

\* __exit__: os.link(self.tmp, self.filepath). It raises when the source
\* is missing or the target exists, and may raise for the file system's
\* own reasons; __exit__ then ends there.
DlExitLink ==
    /\ dl_pc = "exit_link"
    /\ \/ /\ dl_dir[IndirectPath] # 0
          /\ dl_dir["final"] = 0
          /\ dl_dir' = [dl_dir EXCEPT !["final"] = dl_dir[IndirectPath]]
          /\ dl_pc' = "exit_rmtmp"
       \/ /\ dl_pc' = "raised"
          /\ UNCHANGED dl_dir
    /\ UNCHANGED not_dl
    /\ UNCHANGED <<dl_params, dl_fed, dl_inode, dl_path, dl_handle,
                   dl_count, dl_exc>>

\* __exit__: os.remove(self.tmp); the exception of the body, if any, goes
\* on to the caller.
DlExitRemoveTmp ==
    /\ dl_pc = "exit_rmtmp"
    /\ dl_dir' = [dl_dir EXCEPT ![IndirectPath] = 0]
    /\ dl_pc' = IF dl_exc THEN "raised" ELSE "done"
    /\ UNCHANGED not_dl
    /\ UNCHANGED <<dl_params, dl_fed, dl_inode, dl_path, dl_handle,
                   dl_count, dl_exc>>

DlNext ==
    \/ DlDownload
    \/ DlOsRead
    \/ DlOsCheck
    \/ DlOsOpen
    \/ \E k \in 0..dl_size : DlOsWrite(k)
    \/ DlEnter
    \/ DlMpPart
    \/ DlMpRaises
    \/ DlMpCheck
    \/ DlExitClose
    \/ DlExitRemoveFinal
    \/ DlExitLink
    \/ DlExitRemoveTmp

InitDownload == DlInit /\ RdIdle /\ KaIdle /\ UoIdle /\ PlIdle /\ CcIdle /\
        OrIdle /\ DpIdle /\ LyIdle /\ EtIdle /\ HrIdle /\ BsIdle /\ CbIdle /\
        VfIdle /\ SuIdle /\ SiIdle

SpecDownload == InitDownload /\ [][DlNext]_vars

\* What a reader of the final path finds, and the body of the object.
DlFinal == FileAt(dl_dir, dl_inode, "final")
DlNewData == ObjBytes(0, dl_size)

StrictPrefix(s, t) == IsPrefix(s, t) /\ s # t

\* C7: in the multipart path, which writes through indirect_open, the
\* final path is at every instant missing, or holds what it held before
\* the call, or holds the whole body, and the last only once the body of
\* the context ended without exception, the checksum test at the end of
\* the loop included; it never holds a strict prefix of the body.
C7_AtomicVisibility ==
    dl_path = "multipart" =>
        /\ \/ DlFinal = FileAbsent
           \/ DlFinal = dl_pre
           \/ /\ DlFinal = FileOf(DlNewData)
              /\ ~dl_exc
              /\ dl_count = dl_size
              /\ dl_handle = 0
              /\ dl_cs = "none" \/ DlMatches(dl_fed)
        /\ DlFinal.exists => ~StrictPrefix(DlFinal.data, DlNewData)

\* A verified body of several parts has replaced an older file.
C7_Witness ==
    /\ dl_path = "multipart"
    /\ dl_pc = "done"
    /\ dl_pre = FileOf(OldData)
    /\ dl_cs = "right"
    /\ dl_size > dl_chunk
    /\ DlFinal = FileOf(DlNewData)
    /\ dl_dir[IndirectPath] = 0

\* C8: when the body of the indirect_open context raised, the final path
\* is as it was before the context was entered, also after the context has
\* exited; the final path names the file written through the context only
\* if its body ended without exception.
C8_ExceptionFrame ==
    dl_path = "multipart" =>
        /\ dl_exc => DlFinal = dl_pre
        /\ dl_dir["final"] = NewInode => ~dl_exc /\ dl_count = dl_size

\* The body raised after a part was written over an older file, and the
\* context has exited.
C8_Witness ==
    /\ dl_path = "multipart"
    /\ dl_exc
    /\ dl_pc = "raised"
    /\ dl_count > 0
    /\ dl_count < dl_size
    /\ dl_pre = FileOf(OldData)
    /\ DlFinal = dl_pre

\* C9: in the one-shot path the final path never holds a strict prefix of
\* the body, and when the write of the body fails part-way the final path
\* is missing or holds what it held before the call.
C9_OneshotIndirect ==
    dl_path = "oneshot" =>
        /\ DlFinal.exists => ~StrictPrefix(DlFinal.data, DlNewData)
        /\ dl_pc = "raised" /\ dl_handle # 0 =>
              DlFinal \in {FileAbsent, dl_pre}

\* C10: with a verifier whose matches() is false once the whole body was
\* fed, in either path the download does not end normally, the final path
\* keeps the state it had before the call, and when the download has ended
\* no temporary file is left.
C10_MismatchFatal ==
    dl_cs = "wrong" =>
        /\ dl_pc # "done"
        /\ DlFinal = dl_pre
        /\ dl_pc = "raised" => dl_dir["tmp"] = 0

\* The whole body was written to the temporary file and fed to a verifier
\* that rejects it; the download has raised.
C10_Witness ==
    /\ dl_cs = "wrong"
    /\ dl_path = "multipart"
    /\ dl_pc = "raised"
    /\ dl_fed = DlNewData
    /\ dl_inode[NewInode] = DlNewData
    /\ dl_pre = FileOf(OldData)

\* ------------------------------------------- getm/reader.py, part_coords
\* part_coords called with a size and a chunk size.
PlInit ==
    /\ pl_size \in 0..MaxSize
    /\ pl_chunk \in 1..(MaxChunk + 1)
    /\ pl_id = 0
    /\ pl_plan = <<>>
    /\ pl_pc = "run"

\* One turn of the loop of part_coords: yield part_id, start, part_size.
PlYield ==
    /\ pl_pc = "run"
    /\ pl_id < number_of_parts(pl_size, pl_chunk)
    /\ pl_plan' = Append(pl_plan,
                         <<pl_id>> \o part_range(pl_size, pl_chunk, pl_id))
    /\ pl_id' = pl_id + 1
    /\ UNCHANGED not_pl
    /\ UNCHANGED <<pl_size, pl_chunk, pl_pc>>

\* range(_number_of_parts(size, chunk_size)) is exhausted.
PlStop ==
    /\ pl_pc = "run"
    /\ pl_id >= number_of_parts(pl_size, pl_chunk)
    /\ pl_pc' = "done"
    /\ UNCHANGED not_pl
    /\ UNCHANGED <<pl_size, pl_chunk, pl_id, pl_plan>>

PlNext == PlYield \/ PlStop

InitPlanner == PlInit /\ RdIdle /\ KaIdle /\ UoIdle /\ DlIdle /\ CcIdle /\
        OrIdle /\ DpIdle /\ LyIdle /\ EtIdle /\ HrIdle /\ BsIdle /\ CbIdle /\
        VfIdle /\ SuIdle /\ SiIdle

SpecPlanner == InitPlanner /\ [][PlNext]_vars

\* The end of entry i of the plan.
PlEnd(i) == pl_plan[i][2] + pl_plan[i][3]

\* C13: the plan part_coords yields has the least N entries with
\* N * chunk_size >= size; entry i has part_id i and starts where entry
\* i - 1 ends, the first at 0; every length is in 1..chunk_size and only
\* the last may be shorter than chunk_size; the plan ends at size, so it
\* covers [0, size) without gap or overlap and size 0 gives no entry.
C13_RangePlan ==
    /\ \A i \in 1..Len(pl_plan) :
          /\ pl_plan[i][1] = i - 1
          /\ pl_plan[i][2] = (IF i = 1 THEN 0 ELSE PlEnd(i - 1))
          /\ pl_plan[i][2] = (i - 1) * pl_chunk
          /\ pl_plan[i][3] \in 1..pl_chunk
    /\ pl_pc = "done" =>
          /\ Len(pl_plan) * pl_chunk >= pl_size
          /\ Len(pl_plan) > 0 => (Len(pl_plan) - 1) * pl_chunk < pl_size
          /\ \A i \in 1..(Len(pl_plan) - 1) : pl_plan[i][3] = pl_chunk
          /\ (IF pl_plan = <<>> THEN 0 ELSE PlEnd(Len(pl_plan))) = pl_size
          /\ pl_size = 0 => pl_plan = <<>>

\* A finished plan of several entries whose last entry is a full chunk.
C13_Witness ==
    /\ pl_pc = "done"
    /\ Len(pl_plan) >= 3
    /\ pl_chunk >= 2
    /\ pl_size % pl_chunk = 0

\* ----------------------- getm/concurrent/collections.py, the collections
\* One caller puts tasks into a collection and takes their results while
\* the workers of the executor run them. A task is named by its number in
\* the order of the puts. What a call gives the caller is <<task, how,
\* held>>: task is 0 when no task is concerned, how is "result", "raised",
\* "cancelled" or "keyerror" for a task and "none" (get returned None) or
\* "stop" (the iteration ended) without one, held is len(self) when the
\* call was made.

SeqRange(s) == {s[i] : i \in DOMAIN s}

\* Future.done().
CcFinished(t) == cc_status[t] \in {"done", "failed", "cancelled"}

\* Future.result() that returns whatever the task did.
CcResult_NoRaise(t) == "result"

\* Future.result(): the result, or the exception the task raised, or
\* CancelledError.
CcResult(t) ==
    CASE cc_status[t] = "done" -> "result"
      [] cc_status[t] = "failed" -> "raised"
      [] OTHER -> "cancelled"

\* _ConcurrentCollection: getattr(self, "_futures", list()).
CcFutures == IF cc_kind = "queue" THEN SeqRange(cc_fdeque) ELSE cc_fset

\* __len__.
CcLen ==
    CASE cc_kind = "pool" -> Cardinality(cc_fset)
      [] cc_kind = "queue" -> Len(cc_scheduled) + Len(cc_fdeque)
      [] OTHER -> Len(cc_scheduled) + Cardinality(cc_fset)

\* executor.submit for the tasks ts, task t having been put just now.
CcSubmit(t, ts) ==
    [u \in DOMAIN cc_status |->
        IF u \in ts THEN "pending"
        ELSE IF u = t THEN "scheduled" ELSE cc_status[u]]

\* The caller is given the outcome of task t, or nothing of a task.
CcGive(t, how) ==
    /\ cc_last' = <<t, how, CcLen>>
    /\ cc_given' = IF t # 0 /\ how # "keyerror"
                   THEN [cc_given EXCEPT ![t] = how] ELSE cc_given

\* A call that finds nothing to take is not repeated at once.
CcMayCallEmpty == IF cc_last = <<>> THEN TRUE ELSE cc_last[1] # 0

CcInit ==
    /\ cc_kind \in {"pool", "queue", "heap"}
    /\ cc_conc \in 1..MaxConcurrency
    /\ cc_workers \in {cc_conc, cc_conc + 1}
    /\ cc_status = [t \in 1..MaxTasks |-> "none"]
    /\ cc_fset = {}
    /\ cc_fdeque = <<>>
    /\ cc_scheduled = <<>>
    /\ cc_nput = 0
    /\ cc_pc = "idle"
    /\ cc_snap = {}
    /\ cc_need = 0
    /\ cc_isnap = {}
    /\ cc_given = [t \in 1..MaxTasks |-> "no"]
    /\ cc_last = <<>>
    /\ cc_aborted = FALSE
    /\ cc_ab_nput = 0

\* The executor: a free worker takes a submitted task.
CcStart(t) ==
    /\ cc_status[t] = "pending"
    /\ Cardinality({u \in DOMAIN cc_status : cc_status[u] = "running"})
          < cc_workers
    /\ cc_status' = [cc_status EXCEPT ![t] = "running"]
    /\ UNCHANGED not_cc
    /\ UNCHANGED <<cc_params, cc_fset, cc_fdeque, cc_scheduled, cc_nput,
                   cc_pc, cc_snap, cc_need, cc_isnap, cc_given, cc_last,
                   cc_aborted, cc_ab_nput>>

\* The executor: a running task returns, or raises.
CcFinish(t, ok) ==
    /\ cc_status[t] = "running"
    /\ cc_status' = [cc_status EXCEPT ![t] = IF ok THEN "done" ELSE "failed"]
    /\ UNCHANGED not_cc
    /\ UNCHANGED <<cc_params, cc_fset, cc_fdeque, cc_scheduled, cc_nput,
                   cc_pc, cc_snap, cc_need, cc_isnap, cc_given, cc_last,
                   cc_aborted, cc_ab_nput>>

\* ConcurrentQueue.put.
CcQueuePut ==
    /\ cc_pc = "idle"
    /\ cc_kind = "queue"
    /\ cc_nput < MaxTasks
    /\ LET t == cc_nput + 1
           q == QueuePut(<<cc_fdeque, cc_scheduled>>, t, cc_conc)
       IN  /\ cc_fdeque' = q[1]
           /\ cc_scheduled' = q[2]
           /\ cc_status' = CcSubmit(t, SeqRange(q[1]) \ SeqRange(cc_fdeque))
           /\ cc_nput' = t
    /\ UNCHANGED not_cc
    /\ UNCHANGED <<cc_params, cc_fset, cc_pc, cc_snap, cc_need, cc_isnap,
                   cc_given, cc_last, cc_aborted, cc_ab_nput>>

\* ConcurrentQueue.get, and with iter a step of ConcurrentQueue.__iter__.
\* A call that waits for the first future returns when that is done; when
\* result() raises, _submit is not reached.
CcQueueGet(iter) ==
    /\ cc_pc = "idle"
    /\ cc_kind = "queue"
    /\ IF iter /\ cc_scheduled = <<>> /\ cc_fdeque = <<>>
       THEN /\ CcMayCallEmpty
            /\ CcGive(0, "stop")
            /\ UNCHANGED <<cc_fdeque, cc_scheduled, cc_status>>
       ELSE IF cc_fdeque = <<>>
       THEN /\ CcMayCallEmpty
            /\ LET q == QueueSubmit(cc_fdeque, cc_scheduled, cc_conc)
               IN  /\ cc_fdeque' = q[1]
                   /\ cc_scheduled' = q[2]
                   /\ cc_status' = CcSubmit(0, SeqRange(q[1]))
            /\ CcGive(0, "none")
       ELSE LET f == Head(cc_fdeque)
            IN  /\ CcFinished(f)
                /\ CcGive(f, CcResult(f))
                /\ IF CcResult(f) = "result"
                   THEN LET q == QueueSubmit(Tail(cc_fdeque), cc_scheduled,
                                             cc_conc)
                        IN  /\ cc_fdeque' = q[1]
                            /\ cc_scheduled' = q[2]
                            /\ cc_status' =
                                  CcSubmit(0, SeqRange(q[1])
                                                \ SeqRange(cc_fdeque))
                   ELSE /\ cc_fdeque' = Tail(cc_fdeque)
                        /\ UNCHANGED <<cc_scheduled, cc_status>>
    /\ UNCHANGED not_cc
    /\ UNCHANGED <<cc_params, cc_fset, cc_nput, cc_pc, cc_snap, cc_need,
                   cc_isnap, cc_aborted, cc_ab_nput>>

\* ConcurrentPool.put up to its wait: the futures not done are counted and
\* as_completed is given the futures held.
CcPoolPut ==
    /\ cc_pc = "idle"
    /\ cc_kind = "pool"
    /\ cc_nput < MaxTasks
    /\ cc_snap' = cc_fset
    /\ cc_need' = PoolPutNeed(Cardinality(cc_fset),
                              Cardinality({f \in cc_fset : ~CcFinished(f)}),
                              cc_conc)
    /\ cc_pc' = "put_wait"
    /\ UNCHANGED not_cc
    /\ UNCHANGED <<cc_params, cc_status, cc_fset, cc_fdeque, cc_scheduled,
                   cc_nput, cc_isnap, cc_given, cc_last, cc_aborted,
                   cc_ab_nput>>

\* ConcurrentPool.put after its wait: the task is submitted.
CcPoolPutSubmit ==
    /\ cc_pc = "put_wait"
    /\ Cardinality({f \in cc_snap : CcFinished(f)}) >= cc_need
    /\ LET t == cc_nput + 1
       IN  /\ cc_fset' = cc_fset \cup {t}
           /\ cc_status' = CcSubmit(t, {t})
           /\ cc_nput' = t
    /\ cc_pc' = "idle"
    /\ cc_snap' = {}
    /\ cc_need' = 0
    /\ UNCHANGED not_cc
    /\ UNCHANGED <<cc_params, cc_fdeque, cc_scheduled, cc_isnap, cc_given,
                   cc_last, cc_aborted, cc_ab_nput>>

\* ConcurrentPool.get: None from an empty pool, else any future that is
\* done is removed and its result returned or its exception raised.
CcPoolGet ==
    /\ cc_pc = "idle"
    /\ cc_kind = "pool"
    /\ IF cc_fset = {}
       THEN /\ CcMayCallEmpty
            /\ CcGive(0, "none")
            /\ UNCHANGED cc_fset
       ELSE \E f \in cc_fset :
              /\ CcFinished(f)
              /\ cc_fset' = cc_fset \ {f}
              /\ CcGive(f, CcResult(f))
    /\ UNCHANGED not_cc
    /\ UNCHANGED <<cc_params, cc_status, cc_fdeque, cc_scheduled, cc_nput,
                   cc_pc, cc_snap, cc_need, cc_isnap, cc_aborted,
                   cc_ab_nput>>

\* A step of ConcurrentPool.__iter__: the next future of as_completed is
\* removed from the pool and its result yielded; when as_completed has
\* given all it was given, it is called again with the futures held, and
\* the iteration ends when none is held. An exception ends the generator.
CcPoolIter ==
    /\ cc_pc = "idle"
    /\ cc_kind = "pool"
    /\ LET snap == IF cc_isnap # {} THEN cc_isnap ELSE cc_fset
       IN  IF snap = {}
           THEN /\ CcMayCallEmpty
                /\ CcGive(0, "stop")
                /\ UNCHANGED <<cc_fset, cc_isnap>>
           ELSE \E f \in snap :
                  /\ CcFinished(f)
                  /\ IF f \notin cc_fset
                     THEN /\ CcGive(f, "keyerror")
                          /\ cc_isnap' = {}
                          /\ UNCHANGED cc_fset
                     ELSE /\ cc_fset' = cc_fset \ {f}
                          /\ CcGive(f, CcResult(f))
                          /\ cc_isnap' = IF CcResult(f) = "result"
                                         THEN snap \ {f} ELSE {}
    /\ UNCHANGED not_cc
    /\ UNCHANGED <<cc_params, cc_status, cc_fdeque, cc_scheduled, cc_nput,
                   cc_pc, cc_snap, cc_need, cc_aborted, cc_ab_nput>>

\* ConcurrentHeap.priority_put, and put, which is priority_put(1, ...).
CcHeapPut(priority) ==
    /\ cc_pc = "idle"
    /\ cc_kind = "heap"
    /\ cc_nput < MaxTasks
    /\ LET t == cc_nput + 1
           r == HeapPut(Cardinality(cc_fset), cc_scheduled, cc_conc,
                        HeapItem(priority * (0 - 1), t, 0, t))
       IN  /\ ~r.err
           /\ cc_scheduled' = r.scheduled
           /\ cc_fset' = cc_fset \cup SeqRange(r.out)
           /\ cc_status' = CcSubmit(t, SeqRange(r.out))
           /\ cc_nput' = t
    /\ UNCHANGED not_cc
    /\ UNCHANGED <<cc_params, cc_fdeque, cc_pc, cc_snap, cc_need, cc_isnap,
                   cc_given, cc_last, cc_aborted, cc_ab_nput>>

\* ConcurrentHeap.get, and with iter a step of ConcurrentHeap.__iter__:
\* _get removes a future that is done and calls _submit before the result
\* is asked for.
CcHeapGet(iter) ==
    /\ cc_pc = "idle"
    /\ cc_kind = "heap"
    /\ IF iter /\ cc_scheduled = <<>> /\ cc_fset = {}
       THEN /\ CcMayCallEmpty
            /\ CcGive(0, "stop")
            /\ UNCHANGED <<cc_fset, cc_scheduled, cc_status>>
       ELSE IF cc_fset = {}
       THEN /\ CcMayCallEmpty
            /\ LET r == HeapSubmit(0, cc_scheduled, cc_conc, <<>>)
               IN  /\ cc_scheduled' = r.scheduled
                   /\ cc_fset' = SeqRange(r.out)
                   /\ cc_status' = CcSubmit(0, SeqRange(r.out))
            /\ CcGive(0, "none")
       ELSE \E f \in cc_fset :
              /\ CcFinished(f)
              /\ LET r == HeapSubmit(Cardinality(cc_fset) - 1, cc_scheduled,
                                     cc_conc, <<>>)
                 IN  /\ cc_scheduled' = r.scheduled
                     /\ cc_fset' = (cc_fset \ {f}) \cup SeqRange(r.out)
                     /\ cc_status' = CcSubmit(0, SeqRange(r.out))
              /\ CcGive(f, CcResult(f))
    /\ UNCHANGED not_cc
    /\ UNCHANGED <<cc_params, cc_fdeque, cc_nput, cc_pc, cc_snap, cc_need,
                   cc_isnap, cc_aborted, cc_ab_nput>>

\* abort up to its wait: cancel() on every future held; a future that has
\* not started is cancelled, a running or finished one is left as it is.
CcAbort ==
    /\ cc_pc = "idle"
    /\ ~cc_aborted
    /\ cc_status' = [t \in DOMAIN cc_status |->
                        IF t \in CcFutures /\ cc_status[t] = "pending"
                        THEN "cancelled" ELSE cc_status[t]]
    /\ cc_ab_nput' = cc_nput
    /\ cc_pc' = "abort_wait"
    /\ UNCHANGED not_cc
    /\ UNCHANGED <<cc_params, cc_fset, cc_fdeque, cc_scheduled, cc_nput,
                   cc_snap, cc_need, cc_isnap, cc_given, cc_last,
                   cc_aborted>>

\* abort returns: wait(futures) has seen every future held done.
CcAbortReturn ==
    /\ cc_pc = "abort_wait"
    /\ \A f \in CcFutures : CcFinished(f)
    /\ cc_aborted' = TRUE
    /\ cc_pc' = "idle"
    /\ UNCHANGED not_cc
    /\ UNCHANGED <<cc_params, cc_status, cc_fset, cc_fdeque, cc_scheduled,
                   cc_nput, cc_snap, cc_need, cc_isnap, cc_given,
                   cc_last, cc_ab_nput>>

CcNext ==
    \/ \E t \in 1..MaxTasks : CcStart(t)
    \/ \E t \in 1..MaxTasks, ok \in BOOLEAN : CcFinish(t, ok)
    \/ CcQueuePut
    \/ \E iter \in BOOLEAN : CcQueueGet(iter)
    \/ CcPoolPut
    \/ CcPoolPutSubmit
    \/ CcPoolGet
    \/ CcPoolIter
    \/ \E priority \in 1..MaxPriority : CcHeapPut(priority)
    \/ \E iter \in BOOLEAN : CcHeapGet(iter)
    \/ CcAbort
    \/ CcAbortReturn

InitCollection == CcInit /\ RdIdle /\ KaIdle /\ UoIdle /\ DlIdle /\ PlIdle /\
        OrIdle /\ DpIdle /\ LyIdle /\ EtIdle /\ HrIdle /\ BsIdle /\ CbIdle /\
        VfIdle /\ SuIdle /\ SiIdle

SpecCollection == InitCollection /\ [][CcNext]_vars


\* The tasks whose outcome the caller was given.
CcGiven == {t \in DOMAIN cc_given : cc_given[t] # "no"}

\* The tasks the executor was given and the caller has not yet taken.
CcOutstanding ==
    {t \in DOMAIN cc_status :
        cc_status[t] \notin {"none", "scheduled"} /\ cc_given[t] = "no"}

\* C14: as long as abort is not called, a ConcurrentQueue gives the
\* outcomes of its tasks in the order the tasks were put, the k-th given
\* being that of the k-th task put; get returns None and an iteration
\* ends only when the queue holds no task.
C14_QueueFifo ==
    cc_kind = "queue" /\ ~cc_aborted /\ cc_pc # "abort_wait" =>
        /\ CcGiven = 1..Cardinality(CcGiven)
        /\ IF cc_last = <<>> THEN TRUE
           ELSE /\ cc_last[1] # 0 => cc_last[1] = Cardinality(CcGiven)
                /\ cc_last[2] \in {"none", "stop"} => cc_last[3] = 0

\* C15: a ConcurrentQueue holds at most `concurrency` futures, and at most
\* `concurrency` tasks are with the executor without their outcome being
\* taken by get, whether they are done or not.
C15_QueueBounded ==
    cc_kind = "queue" =>
        /\ Len(cc_fdeque) <= cc_conc
        /\ Cardinality(CcOutstanding) <= cc_conc

\* After a get made room for it, the queue again holds `concurrency`
\* futures, all of them done, and a further task still waits unsubmitted.
C15_Witness ==
    /\ cc_kind = "queue"
    /\ cc_given[1] = "result"
    /\ Len(cc_fdeque) = cc_conc
    /\ \A i \in DOMAIN cc_fdeque : cc_status[cc_fdeque[i]] = "done"
    /\ cc_scheduled # <<>>
    /\ cc_status[cc_scheduled[1]] = "scheduled"

\* C16: the tasks of a ConcurrentPool that are submitted and not done are
\* never more than `concurrency`.
C16_PoolBounded ==
    cc_kind = "pool" =>
        Cardinality({t \in DOMAIN cc_status :
                        cc_status[t] \in {"pending", "running"}}) <= cc_conc

\* C17: once abort has returned, no task that was in the collection when
\* abort was called is running: the running ones have finished and none
\* that had not started starts afterwards.
C17_AbortFinal ==
    cc_aborted =>
        \A t \in 1..cc_ab_nput : cc_status[t] # "running"

Urls == {1, 2}
Paths == {0, 1}
OrSize(url) == url

RECURSIVE SeqsUpTo(_, _)
SeqsUpTo(S, n) ==
    IF n = 0 THEN {<<>>}
    ELSE LET shorter == SeqsUpTo(S, n - 1)
         IN  shorter \cup {Append(q, x) : q \in shorter, x \in S}

\* main after config_cli, with a manifest that passed validation.
OrInit ==
    /\ or_manifest \in SeqsUpTo([url : Urls, path : Paths], MaxManifest)
    /\ or_access \in SUBSET Urls
    /\ or_conc \in 1..MaxConcurrency
    /\ or_cont \in BOOLEAN
    /\ or_i = 0
    /\ or_pc = "loop"
    /\ or_raised = "none"
    /\ or_exit_code = 0
    /\ or_child_code = 0
    /\ or_status = 0
    /\ or_scheduled = <<>>
    /\ or_futures = {}
    /\ or_state = [i \in DOMAIN or_manifest |-> "none"]
    /\ or_started = <<>>
    /\ or_logged = {}

\* download, one turn of its first loop: probe the url; log and, without
\* continue_after_error, CLI.exit() when it is not accessible; else
\* priority_put with priority -size.
OrProbe ==
    /\ or_pc = "loop"
    /\ or_i < Len(or_manifest)
    /\ LET i == or_i + 1
           info == or_manifest[i]
       IN  /\ or_i' = i
           /\ IF info.url \notin or_access
              THEN /\ or_exit_code' = 1
                   /\ or_logged' = or_logged \cup {i}
                   /\ or_state' = [or_state EXCEPT ![i] = "inaccessible"]
                   /\ IF or_cont
                      THEN UNCHANGED <<or_pc, or_raised>>
                      ELSE or_pc' = "shutdown" /\ or_raised' = "SystemExit"
                   /\ UNCHANGED <<or_scheduled, or_futures, or_started>>
              ELSE LET priority == 0 - OrSize(info.url)
                       r == HeapPut(Cardinality(or_futures), or_scheduled,
                                    or_conc,
                                    HeapItem(priority * (0 - 1), info.url,
                                             info.path, i))
                   IN  IF r.err
                       THEN /\ or_pc' = "shutdown"
                            /\ or_raised' = "TypeError"
                            /\ UNCHANGED <<or_exit_code, or_logged, or_state,
                                           or_scheduled, or_futures,
                                           or_started>>
                       ELSE /\ or_scheduled' = r.scheduled
                            /\ or_futures' = or_futures \cup SeqRange(r.out)
                            /\ or_started' = or_started \o r.out
                            /\ or_state' =
                                  [j \in DOMAIN or_state |->
                                      IF j \in SeqRange(r.out) THEN "running"
                                      ELSE IF j = i THEN "scheduled"
                                      ELSE or_state[j]]
                            /\ UNCHANGED <<or_pc, or_raised, or_exit_code,
                                           or_logged>>
    /\ UNCHANGED not_or
    /\ UNCHANGED <<or_params, or_child_code, or_status>>

\* The first loop of download is over.
OrLoopEnd ==
    /\ or_pc = "loop"
    /\ or_i = Len(or_manifest)
    /\ or_pc' = "drain"
    /\ UNCHANGED not_or
    /\ UNCHANGED <<or_params, or_i, or_raised, or_exit_code, or_child_code,
                   or_status, or_scheduled, or_futures, or_state,
                   or_started, or_logged>>

\* _download in a worker process returns, or raises after log_exception
\* has set the CLI.exit_code of that process.
OrFinish(i, ok) ==
    /\ or_state[i] = "running"
    /\ or_state' = [or_state EXCEPT ![i] = IF ok THEN "done" ELSE "failed"]
    /\ or_child_code' = IF ok THEN or_child_code ELSE 1
    /\ UNCHANGED not_or
    /\ UNCHANGED <<or_params, or_i, or_pc, or_raised, or_exit_code, or_status,
                   or_scheduled, or_futures, or_started, or_logged>>

\* download, one turn of its second loop: iter_futures takes a finished
\* future with _get, which submits what has room, and f.result() raises
\* what the download raised; without continue_after_error that is
\* CLI.exit(), and the finally clause aborts the heap.
OrDrain ==
    /\ or_pc = "drain"
    /\ IF or_scheduled = <<>> /\ or_futures = {}
       THEN /\ or_pc' = "shutdown"
            /\ UNCHANGED <<or_raised, or_scheduled, or_futures, or_state,
                           or_started>>
       ELSE \E f \in (IF or_futures = {} THEN {0} ELSE or_futures) :
              /\ f # 0 => or_state[f] \in {"done", "failed"}
              /\ LET r == HeapSubmit(Cardinality(or_futures \ {f}),
                                     or_scheduled, or_conc, <<>>)
                     raises == IF f = 0 THEN FALSE
                               ELSE or_state[f] = "failed" /\ ~or_cont
                 IN  /\ or_scheduled' = r.scheduled
                     /\ or_futures' = (or_futures \ {f}) \cup SeqRange(r.out)
                     /\ or_started' = or_started \o r.out
                     /\ or_state' =
                           [j \in DOMAIN or_state |->
                               IF j \in SeqRange(r.out) THEN "running"
                               ELSE or_state[j]]
                     /\ IF r.err
                        THEN or_pc' = "shutdown" /\ or_raised' = "TypeError"
                        ELSE IF raises
                        THEN or_pc' = "shutdown" /\ or_raised' = "SystemExit"
                        ELSE UNCHANGED <<or_pc, or_raised>>
    /\ UNCHANGED not_or
    /\ UNCHANGED <<or_params, or_i, or_exit_code, or_child_code, or_status,
                   or_logged>>

\* Leaving download: cheap.abort() cancels nothing that runs and waits, and
\* the executor shuts down waiting for its workers. Then main exits with
\* CLI.exit_code, an uncaught TypeError gives status 1, and SystemExit
\* gives code or CLI.exit_code of the parent.
OrLeave ==
    /\ or_pc = "shutdown"
    /\ \A i \in DOMAIN or_state : or_state[i] # "running"
    /\ or_pc' = "exited"
    /\ or_status' = IF or_raised = "TypeError" THEN 1 ELSE or_exit_code
    /\ UNCHANGED not_or
    /\ UNCHANGED <<or_params, or_i, or_raised, or_exit_code, or_child_code,
                   or_scheduled, or_futures, or_state, or_started, or_logged>>

OrNext ==
    \/ OrProbe
    \/ OrLoopEnd
    \/ \E i \in DOMAIN or_state, ok \in BOOLEAN : OrFinish(i, ok)
    \/ OrDrain
    \/ OrLeave

InitOrchestrator == OrInit /\ RdIdle /\ KaIdle /\ UoIdle /\ DlIdle /\
        PlIdle /\ CcIdle /\ DpIdle /\ LyIdle /\ EtIdle /\ HrIdle /\ BsIdle /\
        CbIdle /\ VfIdle /\ SuIdle /\ SiIdle

SpecOrchestrator == InitOrchestrator /\ [][OrNext]_vars


\* The entries of the manifest, and how their downloads ended.
OrEntries == DOMAIN or_manifest
OrAccessible(i) == or_manifest[i].url \in or_access
OrNeverStarted(i) == or_state[i] \in {"none", "inaccessible", "scheduled"}
OrPosition(i) == CHOOSE k \in DOMAIN or_started : or_started[k] = i

\* C11: once the process has exited, its status is 0 exactly when every
\* entry of the manifest was downloaded successfully.
C11_ExitStatus ==
    or_pc = "exited" =>
        (or_status = 0 <=> \A i \in OrEntries : or_state[i] = "done")

\* C12: once the process has exited, an accessible entry was left without
\* a started download only if continue_after_error is unset and an entry
\* was inaccessible or a download failed; with continue_after_error set
\* every accessible entry ran to completion and every inaccessible entry
\* was logged with the body of its response.
C12_ContinueAfterError ==
    or_pc = "exited" =>
        /\ \A i \in OrEntries :
              (OrAccessible(i) /\ OrNeverStarted(i)) =>
                  /\ ~or_cont
                  /\ \E j \in OrEntries :
                        or_state[j] \in {"inaccessible", "failed"}
        /\ or_cont =>
              \A i \in OrEntries :
                  IF OrAccessible(i) THEN or_state[i] \in {"done", "failed"}
                  ELSE i \in or_logged

\* C19: of two accessible entries the one with fewer bytes starts no later
\* than the other.
C19_SmallFirst ==
    \A a \in OrEntries, b \in OrEntries :
        (/\ OrAccessible(a) /\ OrAccessible(b)
         /\ OrSize(or_manifest[a].url) < OrSize(or_manifest[b].url)
         /\ b \in SeqRange(or_started))
        => /\ a \in SeqRange(or_started)
           /\ OrPosition(a) < OrPosition(b)


\* --------------------------------- getm/__init__.py, urlopen, iter_content
\* Python's None among the integers an argument may be.
None == 0 - 1

default_chunk_size == 128 * 1024 * 1024
default_chunk_size_keep_alive == 1 * 1024 * 1024
default_concurrency == 4

\* Python's `x or d` on an Optional[int]: d when x is None or 0.
PyOr(x, d) == IF x = None \/ x = 0 THEN d ELSE x

\* A call with any chunk_size and concurrency, up to default_concurrency.
DpInit ==
    /\ dp_chunk_size \in {None} \cup (0..(MaxChunk + 2))
    /\ dp_concurrency \in {None} \cup (0..(MaxConcurrency + 2))
    /\ dp_pc = "call"
    /\ dp_fn = "none"
    /\ dp_reader = "none"
    /\ dp_reader_chunk = None
    /\ dp_reader_conc = None

\* The branch urlopen and iter_content share.
DpRoute(concurrency) ==
    IF concurrency = None THEN "URLRawReader"
    ELSE IF 1 = concurrency THEN "URLReaderKeepAlive"
    ELSE "URLReader"

DpChunk(chunk_size, concurrency) ==
    IF 1 = concurrency /\ concurrency # None
    THEN PyOr(chunk_size, default_chunk_size_keep_alive)
    ELSE PyOr(chunk_size, default_chunk_size)

\* urlopen: URLRawReader(url), URLReaderKeepAlive(url, chunk_size) or
\* URLReader(url, chunk_size, concurrency).
DpUrlopen ==
    /\ dp_pc = "call"
    /\ dp_pc' = "returned"
    /\ dp_fn' = "urlopen"
    /\ dp_reader' = DpRoute(dp_concurrency)
    /\ dp_reader_chunk' =
          IF dp_concurrency = None THEN None
          ELSE DpChunk(dp_chunk_size, dp_concurrency)
    /\ dp_reader_conc' =
          IF DpRoute(dp_concurrency) = "URLReader"
          THEN PyOr(dp_concurrency, default_concurrency)
          ELSE None
    /\ UNCHANGED not_dp
    /\ UNCHANGED dp_params

\* iter_content: the iter_content of the same three classes, each with the
\* chunk size.
DpIterContent ==
    /\ dp_pc = "call"
    /\ dp_pc' = "returned"
    /\ dp_fn' = "iter_content"
    /\ dp_reader' = DpRoute(dp_concurrency)
    /\ dp_reader_chunk' = DpChunk(dp_chunk_size, dp_concurrency)
    /\ dp_reader_conc' =
          IF DpRoute(dp_concurrency) = "URLReader"
          THEN PyOr(dp_concurrency, default_concurrency)
          ELSE None
    /\ UNCHANGED not_dp
    /\ UNCHANGED dp_params

DpNext ==
    \/ DpUrlopen
    \/ DpIterContent

InitDispatch == DpInit /\ RdIdle /\ KaIdle /\ UoIdle /\ DlIdle /\ PlIdle /\
        CcIdle /\ OrIdle /\ LyIdle /\ EtIdle /\ HrIdle /\ BsIdle /\ CbIdle /\
        VfIdle /\ SuIdle /\ SiIdle

SpecDispatch == InitDispatch /\ [][DpNext]_vars

\* C20: a returned call went to the raw reader when concurrency is None or
\* 0, to the keep-alive reader when it is 1, and to the parallel range
\* reader with that many workers when it is 2 or more.
C20_Dispatch ==
    dp_pc = "returned" =>
        /\ dp_concurrency \in {None, 0} => dp_reader = "URLRawReader"
        /\ dp_concurrency = 1 => dp_reader = "URLReaderKeepAlive"
        /\ dp_concurrency >= 2 =>
              /\ dp_reader = "URLReader"
              /\ dp_reader_conc = dp_concurrency


\* ------------------------------- getm/checksum.py, _s3_multipart_layouts
MB == 1024 * 1024

\* math.ceil(a / b) for integers a >= 0, b >= 1.
Ceil(a, b) == (a + b - 1) \div b

\* ceil(size / number_of_parts / MB) * MB
min_part_size(size, n_parts) ==
    Ceil(size, n_parts * MB) * MB

\* (ceil(size / (n_parts - 1) / MB) - 1) * MB
max_part_size_Inclusive(size, n_parts) ==
    Ceil(size, (n_parts - 1) * MB) * MB

max_part_size(size, n_parts) ==
    (Ceil(size, (n_parts - 1) * MB) - 1) * MB

\* Python's floor division by a positive number.
FloorDiv(a, b) == IF a >= 0 THEN a \div b ELSE 0 - ((b - 1 - a) \div b)

\* [f(i) for i in range(n)], range(n) being empty for n <= 0.
s3_multipart_layouts(size, n_parts) ==
    LET lo == min_part_size(size, n_parts)
        hi == max_part_size(size, n_parts)
        n == 1 + FloorDiv(hi - lo, MB)
    IN  IF lo = hi THEN <<lo>>
        ELSE [i \in 1..(IF n > 0 THEN n ELSE 0) |-> lo + (i - 1) * MB]

\* A call with a size around a whole number of MiB.
LyInit ==
    /\ ly_size \in {q * MB + r : q \in 0..MaxLayoutMB, r \in {0, 1, MB - 1}}
    /\ ly_parts \in 1..MaxParts
    /\ ly_pc = "call"
    /\ ly_out = <<>>

\* if 1 == number_of_parts: return [size]
LySingle ==
    /\ ly_pc = "call"
    /\ ly_parts = 1
    /\ ly_pc' = "returned"
    /\ ly_out' = <<ly_size>>
    /\ UNCHANGED not_ly
    /\ UNCHANGED <<ly_size, ly_parts>>

\* assert size >= MB
LyAssert ==
    /\ ly_pc = "call"
    /\ ly_parts # 1
    /\ ly_size < MB
    /\ ly_pc' = "raised"
    /\ UNCHANGED not_ly
    /\ UNCHANGED <<ly_size, ly_parts, ly_out>>

LyLayouts ==
    /\ ly_pc = "call"
    /\ ly_parts # 1
    /\ ly_size >= MB
    /\ ly_pc' = "returned"
    /\ ly_out' = s3_multipart_layouts(ly_size, ly_parts)
    /\ UNCHANGED not_ly
    /\ UNCHANGED <<ly_size, ly_parts>>

LyNext ==
    \/ LySingle
    \/ LyAssert
    \/ LyLayouts

InitLayouts == LyInit /\ RdIdle /\ KaIdle /\ UoIdle /\ DlIdle /\ PlIdle /\
        CcIdle /\ OrIdle /\ DpIdle /\ EtIdle /\ HrIdle /\ BsIdle /\ CbIdle /\
        VfIdle /\ SuIdle /\ SiIdle

SpecLayouts == InitLayouts /\ [][LyNext]_vars

\* The part sizes that are multiples of 1 MiB and split size into exactly
\* number_of_parts parts.
LySplits(size, n_parts) ==
    {P \in {k * MB : k \in 1..(size \div MB + 1)} :
        Ceil(size, P) = n_parts}

\* C21: for size >= 1 MiB and two or more parts the list returned is
\* strictly increasing and holds exactly the multiples of 1 MiB that split
\* size into that many parts; for one part it is [size].
C21_Layouts ==
    ly_pc = "returned" =>
        IF ly_parts = 1 THEN ly_out = <<ly_size>>
        ELSE /\ \A i \in 1..(Len(ly_out) - 1) : ly_out[i] < ly_out[i + 1]
             /\ SeqRange(ly_out) = LySplits(ly_size, ly_parts)

\* C21, its case: a call for two or more parts that returned several
\* layouts.
C21_Witness ==
    /\ ly_pc = "returned"
    /\ ly_parts >= 2
    /\ Len(ly_out) >= 2


\* ------------------------------------------- getm/checksum.py, S3Etag
\* hashlib.md5 of a byte string, as a value that tells two byte strings
\* apart.
Md5(bytes) == [md5 |-> bytes]

\* data[a:] and data[:a] of Python, a >= 0.
SliceFrom(data, a) == SubSeq(data, Min(a, Len(data)) + 1, Len(data))
SliceTo(data, a) == SubSeq(data, 1, Min(a, Len(data)))

\* The state of an S3Etag.
EtState(etags, current_md5, current_part_size) ==
    [etags |-> etags, current_md5 |-> current_md5,
     current_part_size |-> current_part_size]

\* S3Etag.update
RECURSIVE S3Update_NoReset(_, _, _)
S3Update_NoReset(st, part_size, data) ==
    IF Len(data) + st.current_part_size >= part_size
    THEN LET to_add == part_size - st.current_part_size
         IN  S3Update_NoReset(
                 EtState(Append(st.etags,
                                Md5(st.current_md5 \o SliceTo(data, to_add))),
                         st.current_md5 \o SliceTo(data, to_add), 0),
                 part_size, SliceFrom(data, to_add))
    ELSE EtState(st.etags, st.current_md5 \o data,
                 st.current_part_size + Len(data))

RECURSIVE S3Update(_, _, _)
S3Update(st, part_size, data) ==
    IF Len(data) + st.current_part_size >= part_size
    THEN LET to_add == part_size - st.current_part_size
         IN  S3Update(
                 EtState(Append(st.etags,
                                Md5(st.current_md5 \o SliceTo(data, to_add))),
                         <<>>, 0),
                 part_size, SliceFrom(data, to_add))
    ELSE EtState(st.etags, st.current_md5 \o data,
                 st.current_part_size + Len(data))

\* S3Etag.s3_etag, the list _etags it leaves.
S3EtagList(st) ==
    IF st.current_part_size # 0
    THEN Append(st.etags, Md5(st.current_md5))
    ELSE st.etags

\* S3Etag.s3_etag, the value returned: the only etag, or the md5 of the
\* joined etags with their number.
S3EtagValue(etags) ==
    IF 1 = Len(etags) THEN [etag |-> <<etags[1]>>, parts |-> 0]
    ELSE [etag |-> etags, parts |-> Len(etags)]

\* A new S3Etag and a stream of et_size bytes.
EtInit ==
    /\ et_part_size \in 1..(MaxChunk + 1)
    /\ et_size \in 0..MaxSize
    /\ et_fed = 0
    /\ et_etags = <<>>
    /\ et_current_md5 = <<>>
    /\ et_current_part_size = 0
    /\ et_pc = "feeding"
    /\ et_pieces = {}
    /\ et_result = <<>>

\* A piece of n bytes given after fed bytes: empty, across a part boundary
\* with bytes on both sides, or neither.
EtPieceKind(fed, n, part_size) ==
    IF n = 0 THEN "empty"
    ELSE IF (fed % part_size) # 0 /\ (fed % part_size) + n > part_size
    THEN "straddling"
    ELSE "other"

EtSelf == EtState(et_etags, et_current_md5, et_current_part_size)

\* update with the next n bytes of the stream, n = 0 included.
EtUpdate(n) ==
    /\ et_pc = "feeding"
    /\ et_fed + n <= et_size
    /\ LET st == S3Update(EtSelf, et_part_size, ObjBytes(et_fed, n))
       IN  /\ et_etags' = st.etags
           /\ et_current_md5' = st.current_md5
           /\ et_current_part_size' = st.current_part_size
    /\ et_fed' = et_fed + n
    /\ et_pieces' = et_pieces \cup {EtPieceKind(et_fed, n, et_part_size)}
    /\ UNCHANGED not_et
    /\ UNCHANGED <<et_params, et_pc, et_result>>

\* s3_etag() once the stream is fed.
EtS3Etag ==
    /\ et_pc = "feeding"
    /\ et_fed = et_size
    /\ et_etags' = S3EtagList(EtSelf)
    /\ et_result' = S3EtagValue(S3EtagList(EtSelf))
    /\ et_pc' = "s3_etag"
    /\ UNCHANGED not_et
    /\ UNCHANGED <<et_params, et_fed, et_current_md5, et_current_part_size,
                   et_pieces>>

\* The ETag of the stream uploaded in parts of et_part_size bytes.
EtCut ==
    [k \in 1..Ceil(et_size, et_part_size) |->
        Md5(ObjBytes((k - 1) * et_part_size,
                     Min(et_part_size, et_size - (k - 1) * et_part_size)))]

\* matches(val) once the stream is fed, val being the ETag of the stream.
EtMatches ==
    /\ et_pc = "feeding"
    /\ et_fed = et_size
    /\ et_etags' = S3EtagList(EtSelf)
    /\ et_result' = <<S3EtagValue(S3EtagList(EtSelf)) = S3EtagValue(EtCut)>>
    /\ et_pc' = "matches"
    /\ UNCHANGED not_et
    /\ UNCHANGED <<et_params, et_fed, et_current_md5, et_current_part_size,
                   et_pieces>>

\* The same call once more, with no update in between: s3_etag() again, or
\* matches(val) again with the same val. et_result holds what the two calls
\* returned.
EtAgain ==
    /\ et_pc \in {"s3_etag", "matches"}
    /\ et_etags' = S3EtagList(EtSelf)
    /\ et_result' =
          <<et_result,
            IF et_pc = "s3_etag" THEN S3EtagValue(S3EtagList(EtSelf))
            ELSE <<S3EtagValue(S3EtagList(EtSelf)) = S3EtagValue(EtCut)>> >>
    /\ et_pc' = IF et_pc = "s3_etag" THEN "s3_etag_again" ELSE "matches_again"
    /\ UNCHANGED not_et
    /\ UNCHANGED <<et_params, et_fed, et_current_md5, et_current_part_size,
                   et_pieces>>

EtNext ==
    \/ \E n \in 0..MaxSize : EtUpdate(n)
    \/ EtS3Etag
    \/ EtMatches
    \/ EtAgain

InitEtag == EtInit /\ RdIdle /\ KaIdle /\ UoIdle /\ DlIdle /\ PlIdle /\
        CcIdle /\ OrIdle /\ DpIdle /\ LyIdle /\ HrIdle /\ BsIdle /\ CbIdle /\
        VfIdle /\ SuIdle /\ SiIdle

SpecEtag == InitEtag /\ [][EtNext]_vars

\* One update with the whole stream, then s3_etag().
EtWhole ==
    S3EtagList(S3Update(EtState(<<>>, <<>>, 0), et_part_size,
                        ObjBytes(0, et_size)))

\* C22: however the stream was split into update calls, the digested
\* blocks after s3_etag() or matches() are the stream cut every part_size
\* bytes, the same as after one update with the whole stream, and so is
\* the value returned.
C22_SplitIndependent ==
    /\ et_pc \in {"s3_etag", "matches"} =>
          /\ et_etags = EtCut
          /\ et_etags = EtWhole
    /\ et_pc = "s3_etag" => et_result = S3EtagValue(EtWhole)
    /\ et_pc = "matches" => et_result = <<TRUE>>

\* C22, its case: a stream that ends inside a part, fed in pieces of which
\* one was empty and one straddled a part boundary, and finished.
C22_Witness ==
    /\ et_pc = "s3_etag"
    /\ (et_size % et_part_size) # 0
    /\ {"empty", "straddling"} \subseteq et_pieces
    /\ Len(et_etags) >= 3


\* ------------------------------ getm/http.py, Session.get_range_readinto
\* for _ in range(10)
RangeAttempts == 10

\* if size == resp.raw.readinto(buf): break
HrBreaks_AnyBytes(size, n) == n > 0

HrBreaks(size, n) == size = n

\* A call with a destination of size bytes that nothing was written to.
HrInit ==
    /\ hr_start \in 0..1
    /\ hr_size \in 1..(MaxChunk + 1)
    /\ hr_buf = [i \in 1..hr_size |-> Garbage]
    /\ hr_attempts = 0
    /\ hr_short = 0
    /\ hr_last = 0
    /\ hr_pc = "loop"

\* One turn of the loop whose response has an error status:
\* raise_for_status raises.
HrStatusError ==
    /\ hr_pc = "loop"
    /\ hr_attempts < RangeAttempts
    /\ hr_attempts' = hr_attempts + 1
    /\ hr_pc' = "http_error"
    /\ UNCHANGED not_hr
    /\ UNCHANGED <<hr_params, hr_buf, hr_short, hr_last>>

\* One turn of the loop whose response has an OK status and a body of n
\* bytes of the range: readinto writes them at the head of buf.
HrAttempt(n) ==
    /\ hr_pc = "loop"
    /\ hr_attempts < RangeAttempts
    /\ n <= hr_size
    /\ hr_attempts' = hr_attempts + 1
    /\ hr_buf' = [i \in 1..hr_size |->
                    IF i <= n THEN hr_start + i - 1 ELSE hr_buf[i]]
    /\ hr_last' = n
    /\ IF HrBreaks(hr_size, n)
       THEN hr_pc' = "returned" /\ UNCHANGED hr_short
       ELSE hr_short' = hr_short + 1 /\ UNCHANGED hr_pc
    /\ UNCHANGED not_hr
    /\ UNCHANGED hr_params

\* The loop ran out: raise Exception("Failed to download part").
HrExhausted ==
    /\ hr_pc = "loop"
    /\ hr_attempts = RangeAttempts
    /\ hr_pc' = "failed"
    /\ UNCHANGED not_hr
    /\ UNCHANGED <<hr_params, hr_buf, hr_attempts, hr_short, hr_last>>

HrNext ==
    \/ HrStatusError
    \/ \E n \in 0..(MaxChunk + 1) : HrAttempt(n)
    \/ HrExhausted

InitRangeRead == HrInit /\ RdIdle /\ KaIdle /\ UoIdle /\ DlIdle /\ PlIdle /\
        CcIdle /\ OrIdle /\ DpIdle /\ LyIdle /\ EtIdle /\ BsIdle /\ CbIdle /\
        VfIdle /\ SuIdle /\ SiIdle

SpecRangeRead == InitRangeRead /\ [][HrNext]_vars

\* C23: at most 10 requests are issued; the call goes on only while every
\* request read fewer than size bytes; it returns right after the first
\* request that read exactly size bytes, with the range in buf; it fails
\* after exactly 10 short reads; an error status ends it at that request.
C23_ShortBodyRetry ==
    /\ hr_attempts <= 10
    /\ hr_pc = "loop" => hr_short = hr_attempts
    /\ hr_pc = "returned" =>
          /\ hr_last = hr_size
          /\ hr_short = hr_attempts - 1
          /\ hr_buf = ObjBytes(hr_start, hr_size)
    /\ hr_pc = "failed" => hr_attempts = 10 /\ hr_short = 10
    /\ hr_pc = "http_error" => hr_short = hr_attempts - 1

\* C23, its case: a call that returned at its last permitted request after
\* short reads only.
C23_Witness ==
    /\ hr_pc = "returned"
    /\ hr_attempts = 10
    /\ hr_short = 9


\* C24: every read, read(-1) included, asks for at most capacity minus
\* chunk_size bytes.
C24_ReadCap ==
    ka_pc = "reading" => ka_sz <= ka_bufsize - ka_chunk

\* The producer is a process of its own: each of its steps that stays
\* possible is taken in the end, a pending HTTP read included.
\* The streams that outlast the smallest buffer are the ones whose producer
\* has to wait for room.
InitKeepAliveFair ==
    /\ InitKeepAlive
    /\ ka_bufsize = 3 * ka_chunk
    /\ ka_size >= MaxSize - 1

SpecKeepAliveFair ==
    /\ InitKeepAliveFair
    /\ [][KaNext]_vars
    /\ WF_vars(KaRunLoop)
    /\ WF_vars(KaRunPublish)
    /\ WF_vars(KaRunSleep)

\* C25: once close has written the sentinel to buf.start, the producer
\* exits in the end, whatever it was doing.
C25_SentinelStops ==
    (ka_sh_start = Sentinel) ~> (ka_p_pc = "done")

\* C25, its case: the producer left run because it loaded the sentinel,
\* with bytes of the stream still unread.
C25_Witness ==
    /\ ka_sh_start = Sentinel
    /\ ka_p_pc = "done"
    /\ ka_p_start = Sentinel
    /\ ka_p_stop < ka_size

\* C26: once _download is over, by return or by an exception, the
\* temporary file of indirect_open is gone.
C26_TmpRemoved ==
    dl_pc \in {"done", "raised"} => dl_dir[IndirectPath] = 0

\* ---------------------- getm/checksum.py, GETMChecksum; getm/cli.py uses
\* class Algorithms
Algorithms == {"md5", "gs_crc32c", "s3_etag", "null"}

\* The stream cut every part_size, digested part by part: the ETag S3 gives
\* an object of size MiB uploaded in parts of part_size MiB.
VfS3Etag(size, part_size) ==
    S3EtagValue([k \in 1..Ceil(size, part_size) |->
        Md5(ObjBytes((k - 1) * part_size,
                     Min(part_size, size - (k - 1) * part_size)))])

\* The checksum of the object under an algorithm: GETMChecksum.expected of
\* an entry that supplies the correct checksum.
VfExpected(alg, size, part_size) ==
    IF alg = "s3_etag" THEN VfS3Etag(size, part_size)
    ELSE [etag |-> <<Md5(ObjBytes(0, size))>>, parts |-> 0]

\* S3MultiEtag.__init__: one S3Etag per layout, and the assertion on their
\* number.
VfLayouts(size, parts) ==
    IF 1 = parts THEN <<size>>
    ELSE LET l == s3_multipart_layouts(size * MB, parts)
         IN  [i \in DOMAIN l |-> l[i] \div MB]

\* GETMChecksum.cs: the verifier is built at the first use. For s3_etag it
\* reads _s3_size and _s3_part_count, which only
\* set_s3_size_and_part_count defines.
VfNewCs(alg, s3_set, size, parts) ==
    IF alg = "s3_etag"
    THEN IF ~s3_set THEN [err |-> "AttributeError", cs |-> <<>>]
         ELSE IF size < 1 /\ parts # 1
         THEN [err |-> "AssertionError", cs |-> <<>>]
         ELSE IF Len(VfLayouts(size, parts)) > 5
         THEN [err |-> "AssertionError", cs |-> <<>>]
         ELSE [err |-> "none",
               cs |-> [i \in DOMAIN VfLayouts(size, parts) |->
                          EtState(<<>>, <<>>, 0)]]
    ELSE [err |-> "none", cs |-> <<EtState(<<>>, <<>>, 0)>>]

\* update of the verifier: every S3Etag of an S3MultiEtag digests data, MD5
\* and GSCRC32C digest it, NoopChecksum does nothing.
VfCsUpdate(alg, cs, size, parts, data) ==
    IF alg = "s3_etag"
    THEN [i \in DOMAIN cs |->
            S3Update(cs[i], VfLayouts(size, parts)[i], data)]
    ELSE IF alg = "null" THEN cs
    ELSE <<EtState(<<>>, cs[1].current_md5 \o data, 0)>>

\* matches(expected) of the verifier.
VfCsMatches(alg, cs, expected) ==
    IF alg = "s3_etag"
    THEN \E i \in DOMAIN cs : S3EtagValue(S3EtagList(cs[i])) = expected
    ELSE IF alg = "null" THEN TRUE
    ELSE [etag |-> <<Md5(cs[1].current_md5)>>, parts |-> 0] = expected

\* An object uploaded in vf_parts parts of vf_psize MiB, and an algorithm.
VfInit ==
    /\ vf_size \in 1..MaxLayoutMB
    /\ vf_parts \in 1..MaxParts
    /\ vf_psize \in 1..MaxLayoutMB
    /\ Ceil(vf_size, vf_psize) = vf_parts
    /\ vf_alg \in Algorithms
    /\ vf_path \in {"oneshot", "multipart"}
    /\ vf_origin = "none"
    /\ vf_s3_set = FALSE
    /\ vf_has_cs = FALSE
    /\ vf_cs = <<>>
    /\ vf_fed = 0
    /\ vf_pc = "new"

\* download: cs = GETMChecksum(info['checksum'], info['checksum-algorithm'])
VfManifest ==
    /\ vf_pc = "new"
    /\ vf_origin' = "manifest"
    /\ vf_pc' = "built"
    /\ UNCHANGED not_vf
    /\ UNCHANGED <<vf_params, vf_s3_set, vf_has_cs, vf_cs, vf_fed>>

\* checksum_for_url: the checksum of the response headers; an s3_etag gets
\* set_s3_size_and_part_count.
VfHeaders ==
    /\ vf_pc = "new"
    /\ vf_alg # "null"
    /\ vf_origin' = "headers"
    /\ vf_s3_set' = (vf_alg = "s3_etag")
    /\ vf_pc' = "built"
    /\ UNCHANGED not_vf
    /\ UNCHANGED <<vf_params, vf_has_cs, vf_cs, vf_fed>>

\* cs.update(data): the whole object in oneshot, the next MiB in multipart.
VfUpdate ==
    /\ vf_pc = "built"
    /\ vf_fed < vf_size
    /\ LET n == IF vf_path = "oneshot" THEN vf_size ELSE 1
           new == IF vf_has_cs THEN [err |-> "none", cs |-> vf_cs]
                  ELSE VfNewCs(vf_alg, vf_s3_set, vf_size, vf_parts)
       IN  IF new.err # "none"
           THEN /\ vf_pc' = "raised"
                /\ UNCHANGED <<vf_has_cs, vf_cs, vf_fed>>
           ELSE /\ vf_has_cs' = TRUE
                /\ vf_cs' = VfCsUpdate(vf_alg, new.cs, vf_size, vf_parts,
                                       ObjBytes(vf_fed, n))
                /\ vf_fed' = vf_fed + n
                /\ UNCHANGED vf_pc
    /\ UNCHANGED not_vf
    /\ UNCHANGED <<vf_params, vf_origin, vf_s3_set>>

\* assert cs.matches(), "Checksum failed!"
VfMatches ==
    /\ vf_pc = "built"
    /\ vf_fed = vf_size
    /\ vf_has_cs
    /\ vf_pc' = IF VfCsMatches(vf_alg, vf_cs,
                               VfExpected(vf_alg, vf_size, vf_psize))
                THEN "verified" ELSE "mismatch"
    /\ UNCHANGED not_vf
    /\ UNCHANGED <<vf_params, vf_origin, vf_s3_set, vf_has_cs, vf_cs, vf_fed>>

VfNext ==
    \/ VfManifest
    \/ VfHeaders
    \/ VfUpdate
    \/ VfMatches

InitVerifier == VfInit /\ RdIdle /\ KaIdle /\ UoIdle /\ DlIdle /\ PlIdle /\
        CcIdle /\ OrIdle /\ DpIdle /\ LyIdle /\ EtIdle /\ HrIdle /\ BsIdle /\
        CbIdle /\ SuIdle /\ SiIdle

SpecVerifier == InitVerifier /\ [][VfNext]_vars

\* C27: a verifier built from a manifest entry that supplies the correct
\* checksum never raises and never fails to match, and one for s3_etag has
\* its size and part count set once built.
C27_AlgorithmsUsable ==
    vf_origin = "manifest" =>
        /\ vf_pc \notin {"raised", "mismatch"}
        /\ vf_alg = "s3_etag" => vf_s3_set


\* ------------ getm/reader.py, URLReaderKeepAlive.compute_buffer_size
\* buffer_size = 100 * chunk_size
BufferChunks == 100

compute_buffer_size(shm_sz, concurrent_downloads, chunk_size) ==
    IF 0 - 1 = shm_sz THEN BufferChunks * chunk_size
    ELSE LET per_download == shm_sz \div concurrent_downloads
             buffer_size == (per_download \div chunk_size - 1) * chunk_size
         IN  IF buffer_size > BufferChunks * chunk_size
             THEN BufferChunks * chunk_size
             ELSE buffer_size

\* A call, with the shared memory unknown (-1) or of 0..MaxShm bytes.
BsInit ==
    /\ bs_shm \in {0 - 1} \cup (0..MaxShm)
    /\ bs_downloads \in 1..MaxConcurrency
    /\ bs_chunk \in 1..MaxChunk
    /\ bs_pc = "call"
    /\ bs_out = 0

BsCompute ==
    /\ bs_pc = "call"
    /\ bs_pc' = "returned"
    /\ bs_out' = compute_buffer_size(bs_shm, bs_downloads, bs_chunk)
    /\ UNCHANGED not_bs
    /\ UNCHANGED <<bs_shm, bs_downloads, bs_chunk>>

BsNext == BsCompute

InitBufferSize == BsInit /\ RdIdle /\ KaIdle /\ UoIdle /\ DlIdle /\ PlIdle /\
        CcIdle /\ OrIdle /\ DpIdle /\ LyIdle /\ EtIdle /\ HrIdle /\ CbIdle /\
        VfIdle /\ SuIdle /\ SiIdle

SpecBufferSize == InitBufferSize /\ [][BsNext]_vars

\* The buffer sizes that are a multiple of chunk_size, fit the share of one
\* download and are at most 100 chunks.
BsFits ==
    {k * bs_chunk : k \in {j \in 0..100 :
                              j * bs_chunk * bs_downloads <= bs_shm}}

\* C28: with the shared memory known the value returned is the largest
\* multiple of chunk_size that fits the share of one download and 100
\* chunks; with it unknown the value is 100 chunks.
C28_LargestBuffer ==
    bs_pc = "returned" =>
        IF bs_shm = 0 - 1 THEN bs_out = 100 * bs_chunk
        ELSE /\ bs_out \in BsFits
             /\ \A B \in BsFits : B <= bs_out


\* ------------------- getm/concurrent/buffers.py, SharedCircularBuffer
\* What an operation leaves in cb_last.
CbOp(op, a, b, err) ==
    [op |-> op, a |-> a, b |-> b, err |-> err, mem |-> cb_mem,
     start |-> cb_start, stop |-> cb_stop]

\* __setitem__: the bytes of the buffer after self[a:b] = data, for data of
\* b - a bytes. A slice longer than the buffer is a ValueError of
\* _circular_coords, and so is an assignment to a view of another length.
SetItem(size, mem, a, b, data) ==
    LET c == circular_coords(size, a, b)
        wrap_length == size - c.start
    IN  IF size < b - a THEN [err |-> TRUE, mem |-> mem]
        ELSE IF c.wraps
        THEN IF Len(SliceTo(data, wrap_length)) # wrap_length
             THEN [err |-> TRUE, mem |-> mem]
             ELSE [err |-> FALSE,
                   mem |-> [p \in 0..(size - 1) |->
                              IF p >= c.start THEN data[p - c.start + 1]
                              ELSE IF p < Len(data) - wrap_length
                              THEN data[wrap_length + p + 1]
                              ELSE mem[p]]]
        ELSE [err |-> FALSE,
              mem |-> [p \in 0..(size - 1) |->
                         IF p >= c.start /\ p < c.stop
                         THEN data[p - c.start + 1]
                         ELSE mem[p]]]

\* SharedCircularBuffer(size=size, create=True)
CbInit ==
    /\ cb_size \in 1..(MaxChunk + 1)
    /\ cb_mem = [p \in 0..(cb_size - 1) |-> Garbage]
    /\ cb_start = 0
    /\ cb_stop = 0
    /\ cb_ops = 0
    /\ cb_last = <<>>

\* The logical offsets an operation may name.
CbCoords == 0..(2 * cb_size + 1)

\* buf.start = val
CbSetStart(val) ==
    /\ cb_ops < MaxOps
    /\ cb_ops' = cb_ops + 1
    /\ cb_start' = val
    /\ cb_last' = CbOp("start", val, val, FALSE)
    /\ UNCHANGED not_cb
    /\ UNCHANGED <<cb_size, cb_mem, cb_stop>>

\* buf.stop = val
CbSetStop(val) ==
    /\ cb_ops < MaxOps
    /\ cb_ops' = cb_ops + 1
    /\ cb_stop' = val
    /\ cb_last' = CbOp("stop", val, val, FALSE)
    /\ UNCHANGED not_cb
    /\ UNCHANGED <<cb_size, cb_mem, cb_start>>

\* buf[a:b] = data, data being the bytes a..b-1 of the object.
CbSetItem(a, b) ==
    /\ cb_ops < MaxOps
    /\ a <= b
    /\ b - a <= cb_size + 1
    /\ cb_ops' = cb_ops + 1
    /\ LET r == SetItem(cb_size, cb_mem, a, b, ObjBytes(a, b - a))
       IN  /\ cb_mem' = r.mem
           /\ cb_last' = CbOp("setitem", a, b, r.err)
    /\ UNCHANGED not_cb
    /\ UNCHANGED <<cb_size, cb_start, cb_stop>>

\* buf[a:b]
CbGetItem(a, b) ==
    /\ cb_ops < MaxOps
    /\ a <= b
    /\ b - a <= cb_size + 1
    /\ cb_ops' = cb_ops + 1
    /\ cb_last' = CbOp("getitem", a, b, GetItem(cb_size, a, b).err)
    /\ UNCHANGED not_cb
    /\ UNCHANGED <<cb_size, cb_mem, cb_start, cb_stop>>

CbNext ==
    \/ \E val \in CbCoords \cup {Sentinel} : CbSetStart(val)
    \/ \E val \in CbCoords : CbSetStop(val)
    \/ \E a \in CbCoords, b \in CbCoords : CbSetItem(a, b)
    \/ \E a \in CbCoords, b \in CbCoords : CbGetItem(a, b)

InitCircular == CbInit /\ RdIdle /\ KaIdle /\ UoIdle /\ DlIdle /\ PlIdle /\
        CcIdle /\ OrIdle /\ DpIdle /\ LyIdle /\ EtIdle /\ HrIdle /\ BsIdle /\
        VfIdle /\ SuIdle /\ SiIdle

SpecCircular == InitCircular /\ [][CbNext]_vars

\* C29: a write of [a, b) that ends beyond start + capacity is refused with
\* an error, and the bytes and coordinates of the buffer stay as they were.
C29_RefuseOverrun ==
    IF cb_last = <<>> THEN TRUE
    ELSE (/\ cb_last.op = "setitem"
          /\ cb_last.start >= 0
          /\ cb_last.b > cb_last.start + cb_size)
         => /\ cb_last.err
            /\ cb_mem = cb_last.mem
            /\ cb_start = cb_last.start
            /\ cb_stop = cb_last.stop


\* The physical positions a view covers.
ViewPositions(v) == {v.pos + i : i \in 0..(v.len - 1)}

\* The physical positions of the logical bytes a..b-1 of URLReader's buffer.
RdPositions(a, b) == {x % rd_bufsize : x \in a..(b - 1)}

\* The parts submitted to the executor and not yet collected by read.
RdInFlight == {rd_futures[i][1] : i \in 1..Len(rd_futures)}

\* The logical end of the last part submitted so far.
RdSubmittedEnd ==
    IF RdStarted = {} THEN 0
    ELSE LET p == CHOOSE q \in RdStarted : \A o \in RdStarted : o <= q
             r == part_range(rd_size, rd_chunk, p)
         IN  r[1] + r[2]

\* C30: no part that was submitted and is not yet collected writes to a
\* physical position holding bytes collected and not yet returned by read,
\* or bytes of the view the most recent read returned; the span from the
\* start of that view to the end of the last submitted part is at most the
\* size of the buffer.
C30_NeverLaps ==
    /\ \A p \in RdInFlight :
          ViewPositions(RdPartView(p)) \cap
             (RdPositions(rd_start, rd_stop) \cup ViewPositions(rd_last)) = {}
    /\ rd_last.len > 0 => RdSubmittedEnd - rd_last.off <= rd_bufsize


\* The producer cannot go on before the consumer publishes a larger start:
\* everything it read is published and there is no room for a chunk beyond
\* the published start.
KaProducerStuck ==
    /\ ka_p_pc \in {"loop", "sleep"}
    /\ ka_sh_start # Sentinel
    /\ ka_sh_stop = ka_p_stop
    /\ KaNoRoom(ka_p_stop, ka_p_start, ka_chunk, ka_bufsize)
    /\ KaNoRoom(ka_p_stop, ka_sh_start, ka_chunk, ka_bufsize)

\* read cannot leave its loop before the producer publishes a larger stop.
KaReadStuck ==
    /\ ka_pc = "reading"
    /\ ka_sz > ka_sh_stop - ka_start
    /\ ka_sh_stop < ka_size

\* C31: read never waits for stop to grow while the producer waits for
\* start to advance, whatever n and the size of the object.
C31_ReadReturns == ~(KaReadStuck /\ KaProducerStuck)


\* The producer and the generator of iter_content are two processes, each
\* of them goes on taking the steps that stay possible; the server delivers
\* every byte (KaRunLoop reads at least one byte while the stream has one).
\* Every chunk_size, buffer_size and object size for iter_content; for read
\* the objects of one byte at most.
InitKeepAliveIter ==
    /\ InitKeepAlive
    /\ ka_mode = "read" => ka_size <= 1

SpecKeepAliveIter ==
    /\ InitKeepAliveIter
    /\ [][KaNext]_vars
    /\ WF_vars(KaRunLoop)
    /\ WF_vars(KaRunPublish)
    /\ WF_vars(KaRunSleep)
    /\ WF_vars(KaIterPoll)
    /\ WF_vars(KaIterYield)
    /\ WF_vars(KaIterResume)

\* iter_content cannot leave its inner loop before the producer publishes
\* a larger stop.
KaIterStuck ==
    /\ ka_pc = "wait"
    /\ ka_sh_stop - ka_start < ka_chunk
    /\ ka_sh_stop < ka_size

\* C32: in iter_content the producer never waits for room while the
\* generator waits for a full chunk, and the generator finishes in the end.
C32_IterFinishes ==
    /\ [](ka_mode = "iter" => ~(KaIterStuck /\ KaProducerStuck))
    /\ (ka_mode = "iter" => <>(ka_pc = "finished"))

\* C32, its case: the generator finished on an object larger than the
\* buffer, the producer having waited for room on the way, the buffer not
\* a multiple of the chunk.
C32_Witness ==
    /\ ka_mode = "iter"
    /\ ka_pc = "finished"
    /\ ka_size > ka_bufsize
    /\ ka_bufsize % ka_chunk # 0
    /\ ka_p_start > 0


\* The parts that hold slot s: their task is running, or done and not yet
\* yielded, or their view is in the caller's hands.
UoHolders(s) ==
    {p \in DOMAIN uo_status :
        /\ uo_slot[p] = s
        /\ \/ uo_status[p] \in {"run", "done"}
           \/ uo_pc = "yielded" /\ uo_view.id = p}

\* C33: every slot of the buffer array is held by one part at most: a slot
\* goes to the next pending range only after the part fetched into it was
\* yielded and its view released.
C33_SlotExclusive ==
    \A s \in 0..(uo_conc - 1) : Cardinality(UoHolders(s)) <= 1

\* C33, its case: with two slots, slot 1 came free and was given to a later
\* part while the part in slot 0 is still being fetched.
C33_Witness ==
    /\ uo_conc = 2
    /\ \E p \in DOMAIN uo_status, q \in DOMAIN uo_status :
          /\ uo_status[p] = "yielded" /\ uo_slot[p] = 1
          /\ uo_status[q] = "run" /\ uo_slot[q] = 1
          /\ UoHolders(0) # {}


\* The entries of ConcurrentHeap._scheduled that the step in hand submits.
CcHeapSubmitted ==
    {i \in DOMAIN cc_scheduled : cc_scheduled[i].id \in cc_fset'}

C35_PartViewWhole ==
    \A p \in DOMAIN rd_status :
        /\ RdPartView(p).len = part_range(rd_size, rd_chunk, p)[2]
        /\ ~RdPartView(p).err

\* C35, its case: a part of two bytes that ends at the physical end of the
\* buffer was fetched whole.
C35_Witness ==
    \E p \in DOMAIN rd_status :
        /\ rd_status[p] = "done"
        /\ RdPartView(p).len = 2
        /\ RdPartView(p).pos + 2 = rd_bufsize


\* The two readers side by side: a behaviour is one of URLReader or one of
\* URLReaderKeepAlive.
InitReaders == InitReader \/ InitKeepAlive

ReadersNext == RdNext \/ KaNext

SpecReaders == InitReaders /\ [][ReadersNext]_vars

\* C36: a read of one byte or more returns the empty view only when every
\* byte of the object was returned before; otherwise its view has at least
\* one byte and at most sz = min(n, max_read) bytes, and the slice is never
\* refused.
C36_EmptyMeansEnd ==
    /\ rd_eof => rd_start = rd_size
    /\ rd_pc = "held" =>
          /\ rd_view.len >= 1 /\ rd_view.len <= rd_sz
          /\ ~rd_view.err
    /\ ka_mode = "read" =>
          /\ ka_pc # "raised"
          /\ ka_eof => ka_start = ka_size
          /\ ka_pc = "held" => ka_view.len >= 1 /\ ka_view.len <= ka_sz

\* C36, its case: the keep-alive reader had the bytes asked for, and the
\* view stops short at the physical end of the buffer.
C36_Witness ==
    /\ ka_mode = "read"
    /\ ka_pc = "held"
    /\ ka_view.len < ka_sz
    /\ ka_view.pos + ka_view.len = ka_bufsize
    /\ ka_stop - ka_view.off >= ka_sz


\* C37: s3_etag() or matches(val) called twice in a row, with no update in
\* between, returns the same both times.
C37_MatchesIdempotent ==
    et_pc \in {"s3_etag_again", "matches_again"} =>
        et_result[1] = et_result[2]


\* --------------------- getm/checksum.py, S3MultiEtag for a single part
\* S3MultiEtag(size, 1): _s3_multipart_layouts returns [size] for one part,
\* so the verifier is one S3Etag(size). update is followed turn by turn of its
\* while loop.
SuInit ==
    /\ su_size \in 0..MaxSize
    /\ su_fed = 0
    /\ su_data = <<>>
    /\ su_etags = <<>>
    /\ su_current_md5 = <<>>
    /\ su_current_part_size = 0
    /\ su_pc = "idle"
    /\ su_result = <<>>

\* update(data) is called with the next n bytes of the object, n = 0
\* included.
SuUpdate(n) ==
    /\ su_pc = "idle"
    /\ su_fed + n <= su_size
    /\ su_data' = ObjBytes(su_fed, n)
    /\ su_fed' = su_fed + n
    /\ su_pc' = "while"
    /\ UNCHANGED not_su
    /\ UNCHANGED <<su_size, su_etags, su_current_md5, su_current_part_size,
                   su_result>>

\* update, one test of its while loop: a turn of the loop closes a block,
\* the exit adds what is left of data to the open block and returns.
SuWhile ==
    /\ su_pc = "while"
    /\ IF Len(su_data) + su_current_part_size >= su_size
       THEN LET to_add == su_size - su_current_part_size
                etag == Md5(su_current_md5 \o SliceTo(su_data, to_add))
            IN  /\ su_etags' = IF Len(su_etags) < MaxEtags
                               THEN Append(su_etags, etag) ELSE su_etags
                /\ su_data' = SliceFrom(su_data, to_add)
                /\ su_current_part_size' = 0
                /\ su_current_md5' = <<>>
                /\ UNCHANGED su_pc
       ELSE /\ su_current_md5' = su_current_md5 \o su_data
            /\ su_current_part_size' = su_current_part_size + Len(su_data)
            /\ su_data' = <<>>
            /\ su_pc' = "idle"
            /\ UNCHANGED su_etags
    /\ UNCHANGED not_su
    /\ UNCHANGED <<su_size, su_fed, su_result>>

\* s3_etag() once the whole object was fed.
SuS3Etag ==
    /\ su_pc = "idle"
    /\ su_fed = su_size
    /\ LET l == S3EtagList(EtState(su_etags, su_current_md5,
                                   su_current_part_size))
       IN  /\ su_etags' = l
           /\ su_result' = S3EtagValue(l)
    /\ su_pc' = "s3_etag"
    /\ UNCHANGED not_su
    /\ UNCHANGED <<su_size, su_fed, su_data, su_current_md5,
                   su_current_part_size>>

SuNext ==
    \/ \E n \in 0..MaxSize : SuUpdate(n)
    \/ SuWhile
    \/ SuS3Etag

InitSinglePart == SuInit /\ RdIdle /\ KaIdle /\ UoIdle /\ DlIdle /\ PlIdle /\
        CcIdle /\ OrIdle /\ DpIdle /\ LyIdle /\ EtIdle /\ HrIdle /\ BsIdle /\
        CbIdle /\ VfIdle /\ SiIdle

\* update runs in the caller's thread: its loop goes on for as long as it
\* can.
SpecSinglePart ==
    /\ InitSinglePart
    /\ [][SuNext]_vars
    /\ WF_vars(SuWhile)

\* C38: for a single-part verifier every call of update returns, and once
\* the whole object was fed the ETag is the MD5 of the object, with no
\* part count.
C38_SinglePartTerminates ==
    /\ (su_pc = "while") ~> (su_pc = "idle")
    /\ [](su_pc = "s3_etag" =>
            su_result = [etag |-> <<Md5(ObjBytes(0, su_size))>>,
                         parts |-> 0])


\* run() ends before the whole object was read: handle.readinto returns 0
\* on a stream that ends early, or raises, or the process dies.
KaRunEndsEarly ==
    /\ ka_p_pc = "loop"
    /\ ~KaNoRoom(ka_p_stop, ka_p_start, ka_chunk, ka_bufsize)
    /\ ka_p_stop < ka_size
    /\ ka_p_pc' = "done"
    /\ UNCHANGED not_ka
    /\ UNCHANGED <<ka_params, ka_buf, ka_sh_start, ka_sh_stop, ka_p_start,
                   ka_p_stop, ka_consumer>>

KaEarlyNext == KaNext \/ KaRunEndsEarly

\* The keep-alive reader with a producer that may end early.
SpecKeepAliveEarly == InitKeepAlive /\ [][KaEarlyNext]_vars

\* C39: once the producer has ended with fewer than size bytes published,
\* no read and no step of iter_content is left waiting for stop to grow.
C39_NoWaitOnEndedProducer ==
    ~(/\ ka_p_pc = "done"
      /\ ka_sh_stop < ka_size
      /\ KaReadStuck \/ KaIterStuck)


\* ------------------------- streaming_urls/reader.py, iter_content
\* iter_content with a concurrency: a circular buffer of
\* chunk_size * concurrency bytes, every part of the plan put to a
\* ConcurrentQueue, the views yielded in the order of the plan.
si_bufsize == si_chunk * si_conc

SiInit ==
    /\ si_conc \in 1..MaxConcurrency
    /\ si_chunk \in 1..MaxChunk
    /\ si_size \in 0..MaxSize
    /\ si_buf = [p \in 0..(si_bufsize - 1) |-> Garbage]
    /\ LET q == QueuePutAll(<< <<>>, <<>> >>,
                            part_coords(si_size, si_chunk), si_conc)
       IN  /\ si_futures = q[1]
           /\ si_scheduled = q[2]
           /\ si_status =
                [p \in 0..(number_of_parts(si_size, si_chunk) - 1) |->
                    IF \E i \in 1..Len(q[1]) : q[1][i][1] = p
                    THEN "run" ELSE "wait"]
    /\ si_pc = "iter"
    /\ si_view = NoView
    /\ si_count = 0

\* The view of buff[start: start + part_size] for part p.
SiPartView(part) == GetItem(si_bufsize, part[2], part[2] + part[3])

\* _fetch_part in a worker process: the range response is read into
\* buf[start: start + part_size].
SiFetchPart(part) ==
    LET v == SiPartView(part)
    IN  /\ si_status[part[1]] = "run"
        /\ si_buf' = ReadInto(si_buf, v, part[2], Min(part[3], v.len))
        /\ si_status' = [si_status EXCEPT ![part[1]] = "done"]
        /\ UNCHANGED not_si
        /\ UNCHANGED <<si_conc, si_chunk, si_size, si_futures, si_scheduled,
                       si_pc, si_view, si_count>>

\* for part_id, start, part_size in future_parts, one step:
\* ConcurrentQueue.__iter__ ends with nothing scheduled or submitted;
\* otherwise get() takes the result of the oldest future and calls
\* _submit, and the view of the part is yielded.
SiIterNext ==
    /\ si_pc = "iter"
    /\ IF si_scheduled = <<>> /\ si_futures = <<>>
       THEN /\ si_pc' = "done"
            /\ UNCHANGED <<si_futures, si_scheduled, si_status, si_view,
                           si_count>>
       ELSE /\ si_futures # <<>>
            /\ LET part == Head(si_futures)
                   q == QueueSubmit(Tail(si_futures), si_scheduled, si_conc)
               IN  /\ si_status[part[1]] = "done"
                   /\ si_futures' = q[1]
                   /\ si_scheduled' = q[2]
                   /\ si_status' =
                        [p \in DOMAIN si_status |->
                            IF si_status[p] = "wait"
                               /\ \E i \in 1..Len(q[1]) : q[1][i][1] = p
                            THEN "run" ELSE si_status[p]]
                   /\ si_view' = SiPartView(part)
            /\ si_count' = si_count + 1
            /\ si_pc' = "yielded"
    /\ UNCHANGED not_si
    /\ UNCHANGED <<si_conc, si_chunk, si_size, si_buf>>

\* The consumer is done with the view and asks for the next part.
SiResume ==
    /\ si_pc = "yielded"
    /\ si_view' = NoView
    /\ si_pc' = "iter"
    /\ UNCHANGED not_si
    /\ UNCHANGED <<si_conc, si_chunk, si_size, si_buf, si_futures,
                   si_scheduled, si_status, si_count>>

SiParts == {si_futures[i] : i \in 1..Len(si_futures)}

SiNext ==
    \/ \E part \in SiParts : SiFetchPart(part)
    \/ SiIterNext
    \/ SiResume

InitStreamingIter == SiInit /\ RdIdle /\ KaIdle /\ UoIdle /\ DlIdle /\
        PlIdle /\ CcIdle /\ OrIdle /\ DpIdle /\ LyIdle /\ EtIdle /\ HrIdle /\
        BsIdle /\ CbIdle /\ VfIdle /\ SuIdle

SpecStreamingIter == InitStreamingIter /\ [][SiNext]_vars

\* C40: from the yield of a view until the consumer asks for the next part
\* the view holds the bytes of its part, and no worker that is running
\* writes into its region.
C40_YieldedViewIntact ==
    si_pc = "yielded" =>
        /\ ViewBytes(si_buf, si_view) = ObjBytes(si_view.off, si_view.len)
        /\ \A part \in SiParts :
              si_status[part[1]] = "run" =>
                 ViewPositions(SiPartView(part))
                    \cap ViewPositions(si_view) = {}


=============================================================================
